---- MODULE Spec2Model ----
(***************************************************************************)
(* ex_monty native bridge: the suspend/resume protocol of                  *)
(* native/ex_monty/src (interactive.rs, resources.rs, serialization.rs,    *)
(* lib.rs) with the parts of types.rs it calls.                            *)
(*                                                                         *)
(* Every NIF call runs on a scheduler thread of the host; the threads are  *)
(* modelled explicitly, and a handler that touches a resource slot is      *)
(* split at the points where another thread can observe shared state       *)
(* (taking the mutex and reading the Option; writing None and unlocking).  *)
(***************************************************************************)
EXTENDS Integers, Sequences, FiniteSets, TLC

\* --------------------------------------------------------------------------
\* Bounds of the model
\* --------------------------------------------------------------------------
MaxCalls == 4

Threads == {1, 2}

\* --------------------------------------------------------------------------
\* Host terms and canonical values: a shape or a variant and its contents.
\* --------------------------------------------------------------------------
\* The term order of the host: number < atom < pid < tuple < map < list <
\* binary.
term_rank(term) ==
    CASE term.t \in {"int", "float"} -> 1
      [] term.t = "atom" -> 2
      [] term.t = "pid" -> 3
      [] term.t = "tuple" -> 4
      [] term.t = "map" -> 5
      [] term.t = "list" -> 6
      [] term.t = "binary" -> 7

MontyObject(k, v) == [k |-> k, v |-> v]
Term(t, v) == [t |-> t, v |-> v]

\* --------------------------------------------------------------------------
\* Small helpers
\* --------------------------------------------------------------------------
None == [some |-> FALSE]
Some(x) == [some |-> TRUE, v |-> x]

Ok(x) == [ok |-> TRUE, v |-> x]
Err(e) == [ok |-> FALSE, e |-> e]

Range(s) == {s[i] : i \in 1..Len(s)}

RECURSIVE SeqOfSet(_)
SeqOfSet(S) == IF S = {} THEN <<>>
               ELSE LET m == CHOOSE x \in S : \A y \in S : x <= y
                    IN <<m>> \o SeqOfSet(S \ {m})

\* --------------------------------------------------------------------------
\* Host terms and canonical values
\* --------------------------------------------------------------------------
TInt(n) == [t |-> "int", v |-> <<n>>]
TAtom(cs) == [t |-> "atom", v |-> cs]
TBinary(cs) == [t |-> "binary", v |-> cs]
TTuple(es) == [t |-> "tuple", v |-> es]
TPid == [t |-> "pid", v |-> <<>>]

MInt(n) == [k |-> "Int", v |-> <<n>>]
MNone == [k |-> "None", v |-> <<>>]
MBool(b) == [k |-> "Bool", v |-> <<b>>]
MEllipsis == [k |-> "Ellipsis", v |-> <<>>]
MString(cs) == [k |-> "String", v |-> cs]
MTuple(items) == [k |-> "Tuple", v |-> items]

c_nil == <<"n", "i", "l">>
c_true == <<"t", "r", "u", "e">>
c_false == <<"f", "a", "l", "s", "e">>
c_ellipsis == <<"e", "l", "l", "i", "p", "s", "i", "s">>
c_ok == <<"o", "k">>
c_error == <<"e", "r", "r", "o", "r">>

\* --------------------------------------------------------------------------
\* Exception tags
\* --------------------------------------------------------------------------
Lower == <<"a","b","c","d","e","f","g","h","i","j","k","l","m",
           "n","o","p","q","r","s","t","u","v","w","x","y","z">>
Upper == <<"A","B","C","D","E","F","G","H","I","J","K","L","M",
           "N","O","P","Q","R","S","T","U","V","W","X","Y","Z">>

IndexIn(s, c) == IF \E i \in 1..Len(s) : s[i] = c
                 THEN CHOOSE i \in 1..Len(s) : s[i] = c
                 ELSE 0

to_uppercase(c) == IF IndexIn(Lower, c) > 0 THEN Upper[IndexIn(Lower, c)] ELSE c
to_ascii_lowercase(c) == IF IndexIn(Upper, c) > 0 THEN Lower[IndexIn(Upper, c)] ELSE c
is_uppercase(c) == IndexIn(Upper, c) > 0

e_RuntimeError == <<"R","u","n","t","i","m","e","E","r","r","o","r">>
e_ValueError == <<"V","a","l","u","e","E","r","r","o","r">>
e_KeyError == <<"K","e","y","E","r","r","o","r">>
e_OSError == <<"O","S","E","r","r","o","r">>

\* The engine's tag set (monty::ExcType), restricted to four tags.
ExcTypes == <<e_RuntimeError, e_ValueError, e_KeyError, e_OSError>>

ExcType_from_str(s) == IF IndexIn(ExcTypes, s) > 0 THEN Ok(s) ELSE Err("unknown")

\* s.split('_') : the pieces between underscores, empty pieces included.
RECURSIVE split_underscore(_)
split_underscore(s) ==
    IF IndexIn(s, "_") = 0 THEN <<s>>
    ELSE LET i == CHOOSE j \in 1..Len(s) :
                      s[j] = "_" /\ \A k \in 1..(j-1) : s[k] # "_"
         IN <<SubSeq(s, 1, i - 1)>> \o split_underscore(SubSeq(s, i + 1, Len(s)))

capitalize(word) == IF word = <<>> THEN <<>>
                    ELSE <<to_uppercase(word[1])>> \o Tail(word)

RECURSIVE concat(_)
concat(ws) == IF ws = <<>> THEN <<>> ELSE ws[1] \o concat(Tail(ws))

to_pascal(s) == LET ws == split_underscore(s)
                IN concat([i \in 1..Len(ws) |-> capitalize(ws[i])])

\* No second attempt: a tag that does not match as it is written is unknown.
parse_exc_type_exact_only(s) ==
    IF ExcType_from_str(s).ok THEN s ELSE e_RuntimeError

\* interactive.rs parse_exc_type
parse_exc_type(s) ==
    IF ExcType_from_str(s).ok THEN s
    ELSE IF ExcType_from_str(to_pascal(s)).ok THEN to_pascal(s)
    ELSE e_RuntimeError

\* error.rs snake_case
RECURSIVE snake_case_from(_, _)
snake_case_from(s, i) ==
    IF i > Len(s) THEN <<>>
    ELSE (IF is_uppercase(s[i])
          THEN (IF i > 1 THEN <<"_">> ELSE <<>>) \o <<to_ascii_lowercase(s[i])>>
          ELSE <<s[i]>>) \o snake_case_from(s, i + 1)

\* A conversion that keeps a run of capitals in one word (OSError -> oserror).
RECURSIVE snake_case_runs_from(_, _)
snake_case_runs_from(s, i) ==
    IF i > Len(s) THEN <<>>
    ELSE (IF is_uppercase(s[i])
          THEN (IF i > 1 /\ ~ is_uppercase(s[i - 1]) THEN <<"_">> ELSE <<>>)
               \o <<to_ascii_lowercase(s[i])>>
          ELSE <<s[i]>>) \o snake_case_runs_from(s, i + 1)

snake_case_runs(s) == snake_case_runs_from(s, 1)

snake_case(s) == snake_case_from(s, 1)

\* error.rs encode_monty_exception: the type field of the exception struct.
encode_exc_type(exc_type) == TAtom(snake_case(exc_type))

\* --------------------------------------------------------------------------
\* Value codec (types.rs).  Strings, atoms and binaries are sequences of
\* characters; a binary is valid UTF-8.  Integers are within i64: the
\* arbitrary-precision variant BigInt and its {:__bigint__, sign, bytes}
\* form are left out.  The keys of maps are numbers, atoms and binaries.
\* --------------------------------------------------------------------------
\* The atoms that the codec spells.
atoms == [
    named_tuple |-> <<"n","a","m","e","d","_","t","u","p","l","e">>,
    bytes |-> <<"b","y","t","e","s">>,
    path |-> <<"p","a","t","h">>,
    repr |-> <<"r","e","p","r">>,
    cycle |-> <<"c","y","c","l","e">>,
    struct |-> <<"_","_","s","t","r","u","c","t","_","_">>,
    MapSet |-> <<"E","l","i","x","i","r",".","M","a","p","S","e","t">>,
    map |-> <<"m","a","p">>,
    Dataclass |-> <<"E","l","i","x","i","r",".","E","x","M","o","n","t","y",".","D","a","t","a","c","l","a","s","s">>,
    name |-> <<"n","a","m","e">>,
    fields |-> <<"f","i","e","l","d","s">>,
    frozen |-> <<"f","r","o","z","e","n">>,
    Exception |-> <<"E","l","i","x","i","r",".","E","x","M","o","n","t","y",".","E","x","c","e","p","t","i","o","n">>,
    type |-> <<"t","y","p","e">>,
    message |-> <<"m","e","s","s","a","g","e">>,
    traceback |-> <<"t","r","a","c","e","b","a","c","k">>,
    builtin_function |-> <<"b","u","i","l","t","i","n","_","f","u","n","c","t","i","o","n">>]

s_StatResult == <<"S","t","a","t","R","e","s","u","l","t">>

STAT_RESULT_FIELD_ORDER == <<
    <<"s","t","_","m","o","d","e">>,
    <<"s","t","_","i","n","o">>,
    <<"s","t","_","d","e","v">>,
    <<"s","t","_","n","l","i","n","k">>,
    <<"s","t","_","u","i","d">>,
    <<"s","t","_","g","i","d">>,
    <<"s","t","_","s","i","z","e">>,
    <<"s","t","_","a","t","i","m","e">>,
    <<"s","t","_","m","t","i","m","e">>,
    <<"s","t","_","c","t","i","m","e">> >>

\* The bytes that occur in names, in ascending order.
Ascii == <<".">> \o Upper \o <<"_">> \o Lower

\* Order of two strings (binaries, atoms): byte by byte, a prefix first.
RECURSIVE bytes_lt(_, _)
bytes_lt(a, b) ==
    IF b = <<>> THEN FALSE
    ELSE IF a = <<>> THEN TRUE
    ELSE IF a[1] = b[1] THEN bytes_lt(Tail(a), Tail(b))
    ELSE IndexIn(Ascii, a[1]) < IndexIn(Ascii, b[1])

RECURSIVE sort_strings(_)
sort_strings(S) ==
    IF S = {} THEN <<>>
    ELSE LET m == CHOOSE x \in S : \A y \in S : x = y \/ bytes_lt(x, y)
         IN <<m>> \o sort_strings(S \ {m})

\* Numbers by value, atoms and binaries by their bytes.
term_lt(a, b) ==
    IF term_rank(a) # term_rank(b) THEN term_rank(a) < term_rank(b)
    ELSE IF term_rank(a) = 1 THEN a.v[1] < b.v[1]
    ELSE IF a.t \in {"atom", "binary"} THEN bytes_lt(a.v, b.v)
    ELSE FALSE

\* A map of the host holds one value per key and is traversed in the order
\* of its keys, whatever the order in which the keys were put.
TMap(pairs) == [t |-> "map", v |-> pairs]

map_new == TMap(<<>>)

map_get(pairs, key) ==
    IF \E i \in 1..Len(pairs) : pairs[i][1] = key
    THEN Ok(pairs[CHOOSE i \in 1..Len(pairs) : pairs[i][1] = key][2])
    ELSE Err("badarg")

map_put(map, key, value) ==
    LET ps == map.v
    IN IF \E i \in 1..Len(ps) : ps[i][1] = key
       THEN TMap([i \in 1..Len(ps) |->
                            IF ps[i][1] = key THEN <<key, value>> ELSE ps[i]])
       ELSE LET n == Cardinality({i \in 1..Len(ps) : term_lt(ps[i][1], key)})
            IN TMap(SubSeq(ps, 1, n) \o << <<key, value>> >>
                               \o SubSeq(ps, n + 1, Len(ps)))

RECURSIVE map_put_all(_, _)
map_put_all(map, kvs) ==
    IF kvs = <<>> THEN map
    ELSE map_put_all(map_put(map, kvs[1][1], kvs[1][2]), Tail(kvs))

\* types.rs encode_mapset
encode_mapset(members) ==
    map_put(map_put(map_new, TAtom(atoms.struct), TAtom(atoms.MapSet)),
            TAtom(atoms.map),
            map_put_all(map_new, [i \in 1..Len(members) |->
                                     <<members[i], Term("list", <<>>)>>]))

\* attr_map.get(fname): the attribute stored under the string fname, the
\* last one if there are several.
attr_get(attrs, fname) ==
    LET S == {i \in 1..Len(attrs) :
                 attrs[i][1].k = "String" /\ attrs[i][1].v = fname}
    IN IF S = {} THEN None
       ELSE Some(attrs[CHOOSE i \in S : \A j \in S : j <= i][2])

\* types.rs encode_monty_object.  NamedTuple holds <<type_name, field_names,
\* values>>, Dataclass <<name, field_names, attrs, frozen>>, Exception
\* <<exc_type, arg>> with arg an Option<String>, Cycle <<id, description>>.
RECURSIVE encode_monty_object(_)
encode_monty_object(obj) ==
    LET enc(items) == [i \in 1..Len(items) |-> encode_monty_object(items[i])]
        tagged(tag, s) == TTuple(<<TAtom(tag), TBinary(s)>>)
    IN
    CASE obj.k = "None" -> TAtom(c_nil)
      [] obj.k = "Bool" -> TAtom(IF obj.v[1] THEN c_true ELSE c_false)
      [] obj.k = "Int" -> TInt(obj.v[1])
      [] obj.k = "Float" -> Term("float", obj.v)
      [] obj.k = "String" -> TBinary(obj.v)
      [] obj.k = "Bytes" -> tagged(atoms.bytes, obj.v)
      [] obj.k = "Ellipsis" -> TAtom(c_ellipsis)
      [] obj.k = "List" -> Term("list", enc(obj.v))
      [] obj.k = "Tuple" -> TTuple(enc(obj.v))
      [] obj.k = "Dict" ->
            map_put_all(map_new,
                        [i \in 1..Len(obj.v) |->
                            <<encode_monty_object(obj.v[i][1]),
                              encode_monty_object(obj.v[i][2])>>])
      [] obj.k \in {"Set", "FrozenSet"} -> encode_mapset(enc(obj.v))
      [] obj.k = "Path" -> tagged(atoms.path, obj.v)
      [] obj.k = "NamedTuple" ->
            LET field_names == obj.v[2]
                values == obj.v[3]
                n == IF Len(field_names) < Len(values)
                     THEN Len(field_names) ELSE Len(values)
            IN TTuple(<<TAtom(atoms.named_tuple), TBinary(obj.v[1]),
                        Term("list", [i \in 1..n |->
                            TTuple(<<TBinary(field_names[i]),
                                     encode_monty_object(values[i])>>)])>>)
      [] obj.k = "Dataclass" ->
            LET field_names == obj.v[2]
                attrs == obj.v[3]
                present == SelectSeq(field_names,
                                     LAMBDA f : attr_get(attrs, f).some)
                fields_map ==
                    map_put_all(map_new,
                        [i \in 1..Len(present) |->
                            <<TBinary(present[i]),
                              encode_monty_object(attr_get(attrs, present[i]).v)>>])
            IN map_put_all(map_new,
                   << <<TAtom(atoms.struct), TAtom(atoms.Dataclass)>>,
                      <<TAtom(atoms.name), TBinary(obj.v[1])>>,
                      <<TAtom(atoms.fields), fields_map>>,
                      <<TAtom(atoms.frozen),
                        TAtom(IF obj.v[4] THEN c_true ELSE c_false)>> >>)
      [] obj.k = "Exception" ->
            map_put_all(map_new,
                   << <<TAtom(atoms.struct), TAtom(atoms.Exception)>>,
                      <<TAtom(atoms.type), TAtom(snake_case(obj.v[1]))>>,
                      <<TAtom(atoms.message),
                        IF obj.v[2] = <<>> THEN TAtom(c_nil)
                        ELSE TBinary(obj.v[2][1])>>,
                      <<TAtom(atoms.traceback), Term("list", <<>>)>> >>)
      [] obj.k = "Type" -> TAtom(snake_case(obj.v))
      [] obj.k = "BuiltinFunction" -> TAtom(atoms.builtin_function)
      [] obj.k = "Repr" -> tagged(atoms.repr, obj.v)
      [] obj.k = "Cycle" -> tagged(atoms.cycle, obj.v[2])

\* types.rs pascal_case and normalize_namedtuple_type_name
pascal_case(s) == to_pascal(s)

normalize_namedtuple_type_name(s) ==
    IF \E i \in 1..Len(s) : is_uppercase(s[i]) THEN s ELSE pascal_case(s)

\* The canonical order is not imposed: the names are sorted as for any
\* other type, and no field is required.
order_named_tuple_fields_sorted(type_name, by_name) ==
    LET field_names == sort_strings(DOMAIN by_name)
    IN Ok(<<field_names,
            [i \in 1..Len(field_names) |-> by_name[field_names[i]]]>>)

\* types.rs order_named_tuple_fields; by_name is the HashMap, a function
\* from the names to the values.
order_named_tuple_fields(type_name, by_name) ==
    IF type_name = s_StatResult THEN
        IF /\ \A i \in 1..Len(STAT_RESULT_FIELD_ORDER) :
                  STAT_RESULT_FIELD_ORDER[i] \in DOMAIN by_name
           /\ DOMAIN by_name \subseteq Range(STAT_RESULT_FIELD_ORDER)
        THEN Ok(<<STAT_RESULT_FIELD_ORDER,
                  [i \in 1..Len(STAT_RESULT_FIELD_ORDER) |->
                      by_name[STAT_RESULT_FIELD_ORDER[i]]]>>)
        ELSE Err("badarg")
    ELSE LET field_names == sort_strings(DOMAIN by_name)
         IN Ok(<<field_names,
                 [i \in 1..Len(field_names) |-> by_name[field_names[i]]]>>)

\* A name given as an atom or as a binary.
name_string(term) ==
    IF term.t \in {"atom", "binary"} THEN Ok(term.v) ELSE Err("badarg")

RECURSIVE decode_monty_object(_)

\* .map(decode_monty_object).collect::<NifResult<Vec<_>>>()
decode_all(terms) ==
    LET ds == [i \in 1..Len(terms) |-> decode_monty_object(terms[i])]
    IN IF \A i \in 1..Len(ds) : ds[i].ok
       THEN Ok([i \in 1..Len(ds) |-> ds[i].v])
       ELSE Err("badarg")

\* types.rs decode_named_tuple
decode_named_tuple(type_term, fields_term) ==
    IF ~ name_string(type_term).ok THEN Err("badarg")
    ELSE
    LET type_name == normalize_namedtuple_type_name(name_string(type_term).v)
        fs == fields_term.v
    IN
    IF fields_term.t = "list" THEN
        IF \A i \in 1..Len(fs) :
               /\ fs[i].t = "tuple"
               /\ Len(fs[i].v) = 2
               /\ name_string(fs[i].v[1]).ok
               /\ decode_monty_object(fs[i].v[2]).ok
        THEN Ok(MontyObject("NamedTuple",
                  <<type_name,
                    [i \in 1..Len(fs) |-> fs[i].v[1].v],
                    [i \in 1..Len(fs) |-> decode_monty_object(fs[i].v[2]).v]>>))
        ELSE Err("badarg")
    ELSE IF fields_term.t = "map" THEN
        IF \A i \in 1..Len(fs) :
               name_string(fs[i][1]).ok /\ decode_monty_object(fs[i][2]).ok
        THEN LET names == {fs[i][1].v : i \in 1..Len(fs)}
                 last(n) == CHOOSE i \in 1..Len(fs) :
                               /\ fs[i][1].v = n
                               /\ \A j \in 1..Len(fs) : fs[j][1].v = n => j <= i
                 by_name == [n \in names |-> decode_monty_object(fs[last(n)][2]).v]
                 o == order_named_tuple_fields(type_name, by_name)
             IN IF o.ok
                THEN Ok(MontyObject("NamedTuple", <<type_name, o.v[1], o.v[2]>>))
                ELSE Err("badarg")
        ELSE Err("badarg")
    ELSE Err("badarg")

\* types.rs decode_monty_object
decode_monty_object(term) ==
    IF term.t = "atom" THEN
        IF term.v = c_nil THEN Ok(MNone)
        ELSE IF term.v = c_true THEN Ok(MBool(TRUE))
        ELSE IF term.v = c_false THEN Ok(MBool(FALSE))
        ELSE IF term.v = c_ellipsis THEN Ok(MEllipsis)
        ELSE Ok(MString(term.v))
    ELSE IF term.t = "int" THEN Ok(MInt(term.v[1]))
    ELSE IF term.t = "float" THEN Ok(MontyObject("Float", term.v))
    ELSE IF term.t = "binary" THEN Ok(MString(term.v))
    ELSE IF term.t = "tuple" THEN
        LET elements == term.v
            tag == IF Len(elements) > 0 /\ elements[1].t = "atom"
                   THEN elements[1].v ELSE <<>>
        IN
        IF Len(elements) = 3 /\ tag = atoms.named_tuple
        THEN decode_named_tuple(elements[2], elements[3])
        ELSE IF Len(elements) = 2 /\ tag = atoms.bytes THEN
            IF elements[2].t = "binary"
            THEN Ok(MontyObject("Bytes", elements[2].v)) ELSE Err("badarg")
        ELSE IF Len(elements) = 2 /\ tag = atoms.path THEN
            IF elements[2].t = "binary"
            THEN Ok(MontyObject("Path", elements[2].v)) ELSE Err("badarg")
        ELSE IF Len(elements) = 2 /\ tag = atoms.repr THEN
            IF elements[2].t = "binary"
            THEN Ok(MontyObject("Repr", elements[2].v)) ELSE Err("badarg")
        ELSE
            LET items == decode_all(elements)
            IN IF items.ok THEN Ok(MTuple(items.v)) ELSE Err("badarg")
    ELSE IF term.t = "list" THEN
        LET items == decode_all(term.v)
        IN IF items.ok THEN Ok(MontyObject("List", items.v)) ELSE Err("badarg")
    ELSE IF term.t = "map" THEN
        LET struct_val == map_get(term.v, TAtom(atoms.struct))
        IN
        IF struct_val.ok /\ struct_val.v.t = "atom" /\ struct_val.v.v = atoms.MapSet
        THEN
            LET inner_map == map_get(term.v, TAtom(atoms.map))
            IN IF inner_map.ok /\ inner_map.v.t = "map"
               THEN LET items ==
                            decode_all([i \in 1..Len(inner_map.v.v) |->
                                           inner_map.v.v[i][1]])
                    IN IF items.ok THEN Ok(MontyObject("Set", items.v))
                       ELSE Err("badarg")
               ELSE Err("badarg")
        ELSE
            LET keys == decode_all([i \in 1..Len(term.v) |-> term.v[i][1]])
                vals == decode_all([i \in 1..Len(term.v) |-> term.v[i][2]])
            IN IF keys.ok /\ vals.ok
               THEN Ok(MontyObject("Dict", [i \in 1..Len(term.v) |->
                                               <<keys.v[i], vals.v[i]>>]))
               ELSE Err("badarg")
    ELSE Err("badarg")

m_unknown == <<"u","n","k","n","o","w","n">>
c_runtime_error == <<"r","u","n","t","i","m","e","_","e","r","r","o","r">>

Return(obj) == [kind |-> "Return", v |-> <<obj>>]
Error(ty, msg) == [kind |-> "Error", v |-> <<ty, msg>>]

\* elements[i].decode::<String>() : only a binary decodes to a String.
decode_string(term) == IF term.t = "binary" THEN Ok(term.v) ELSE Err("badarg")

\* interactive.rs decode_external_result
decode_external_result(term) ==
    LET plain == LET d == decode_monty_object(term)
                 IN IF d.ok THEN Ok(Return(d.v)) ELSE d
    IN
    IF term.t = "tuple" /\ Len(term.v) >= 2 /\ term.v[1].t = "atom" THEN
        LET elements == term.v
            tag == elements[1].v
        IN IF tag = c_ok THEN
               LET d == decode_monty_object(elements[2])
               IN IF d.ok THEN Ok(Return(d.v)) ELSE d
           ELSE IF tag = c_error THEN
               IF Len(elements) = 3 THEN
                   LET type_str == IF decode_string(elements[2]).ok
                                   THEN elements[2].v
                                   ELSE IF elements[2].t = "atom"
                                        THEN elements[2].v
                                        ELSE c_runtime_error
                       msg == IF decode_string(elements[3]).ok
                              THEN elements[3].v ELSE m_unknown
                   IN Ok(Error(parse_exc_type(type_str), msg))
               ELSE
                   LET msg == IF decode_string(elements[2]).ok
                              THEN elements[2].v ELSE m_unknown
                   IN Ok(Error(e_RuntimeError, msg))
           ELSE plain
    ELSE plain

\* --------------------------------------------------------------------------
\* Named inputs (types.rs decode_inputs).  Input names are single letters;
\* their order is the byte order of the letters.
\* --------------------------------------------------------------------------
NameRank(n) == IndexIn(Lower, n)

RECURSIVE SortNames(_)
SortNames(S) == IF S = {} THEN <<>>
                ELSE LET m == CHOOSE x \in S : \A y \in S : NameRank(x) <= NameRank(y)
                     IN <<m>> \o SortNames(S \ {m})

\* Every rejection reported under one class.
InputErr_generic(class, names) == Err([class |-> "badarg", names |-> names])

InputErr(class, names) == Err([class |-> class, names |-> names])

\* First index of a sequence of names whose name already occurred before it.
FirstDup(names) ==
    IF \E i \in 1..Len(names) : \E j \in 1..(i-1) : names[j] = names[i]
    THEN CHOOSE i \in 1..Len(names) :
             /\ \E j \in 1..(i-1) : names[j] = names[i]
             /\ \A k \in 1..(i-1) : ~ \E j \in 1..(k-1) : names[j] = names[k]
    ELSE 0

\* First index of the supplied inputs whose value does not decode.
FirstBad(inputs) ==
    IF \E i \in 1..Len(inputs) : ~ decode_monty_object(inputs[i][2]).ok
    THEN CHOOSE i \in 1..Len(inputs) :
             /\ ~ decode_monty_object(inputs[i][2]).ok
             /\ \A k \in 1..(i-1) : decode_monty_object(inputs[k][2]).ok
    ELSE 0

\* Supplied inputs accepted whatever they are.
expected_none_lenient(inputs) == Ok(<<>>)

\* The branch taken when the runner declares no input name.
expected_none(inputs) ==
    IF inputs = <<>> THEN Ok(<<>>)
    ELSE InputErr("unexpected inputs: expected none", <<>>)

\* Only the first missing name reported.
missing_list_first(missing) == <<SortNames(missing)[1]>>

\* The BTreeSet of missing names, iterated: ascending.
missing_list(missing) == SortNames(missing)

\* The keys left in the map, collected and sorted.
unexpected_list(unexpected) == SortNames(unexpected)

\* The decoded values in the order the host supplied them.
ordered_as_supplied(inputs, expected_input_names) ==
    [i \in 1..Len(inputs) |-> decode_monty_object(inputs[i][2]).v]

\* provided.remove(name) for each declared name in turn, pushed on `ordered`
\* (every declared name is among the supplied ones).
ordered(inputs, expected_input_names) ==
    LET provided(n) == LET i == CHOOSE j \in 1..Len(inputs) : inputs[j][1] = n
                       IN decode_monty_object(inputs[i][2]).v
    IN [i \in 1..Len(expected_input_names) |-> provided(expected_input_names[i])]

decode_inputs(inputs, expected_input_names) ==
    LET supplied == [i \in 1..Len(inputs) |-> inputs[i][1]]
        dupE == FirstDup(expected_input_names)
        dupP == FirstDup(supplied)
        bad == FirstBad(inputs)
        missing == {n \in Range(expected_input_names) : n \notin Range(supplied)}
        unexpected == {n \in Range(supplied) : n \notin Range(expected_input_names)}
    IN
    IF expected_input_names = <<>> THEN expected_none(inputs)
    ELSE IF dupE > 0 THEN
        InputErr("runner has duplicate input name", <<expected_input_names[dupE]>>)
    ELSE IF dupP > 0 /\ (bad = 0 \/ dupP <= bad) THEN
        InputErr("duplicate input provided", <<supplied[dupP]>>)
    ELSE IF bad > 0 THEN InputErr("badarg", <<>>)
    ELSE IF missing # {} THEN
        InputErr("missing required inputs", missing_list(missing))
    ELSE IF unexpected # {} THEN
        InputErr("unexpected inputs", unexpected_list(unexpected))
    ELSE Ok(ordered(inputs, expected_input_names))

\* --------------------------------------------------------------------------
\* Resource limits (types.rs decode_resource_limits).  An Option<usize> is a
\* sequence of length 0 or 1.
\* --------------------------------------------------------------------------
ResourceLimits_new == [max_allocations |-> <<>>, max_duration |-> <<>>,
                       max_memory |-> <<>>, gc_interval |-> <<>>,
                       max_recursion_depth |-> <<>>]

decode_usize(term) == IF term.t = "int" /\ term.v[1] >= 0 THEN Ok(term.v[1])
                      ELSE Err("badarg")

decode_f64(term) == IF term.t = "float" THEN Ok(term.v[1]) ELSE Err("badarg")

\* One `if let Ok(val) = map_get(..) { if let Ok(n) = val.decode() {..} }`.
LimitField(pairs, key, dec(_)) ==
    IF map_get(pairs, key).ok /\ dec(map_get(pairs, key).v).ok
    THEN <<dec(map_get(pairs, key).v).v>>
    ELSE <<>>

\* Duration::from_secs_f64(secs): panics when secs is negative.  Seconds are
\* whole numbers here, so the Duration is its number of seconds.
Duration_from_secs_f64(secs) == IF secs < 0 THEN Err("panic") ELSE Ok(secs)

\* A variant in which nil is not accepted in place of the map.
limits_is_nil_never(term) == FALSE

\* term.is_atom() and atom_to_string() == "nil"
limits_is_nil(term) == term.t = "atom" /\ term.v = c_nil

\* A variant in which a field that is present and does not decode is an error.
decode_resource_limits_strict(term) ==
    IF limits_is_nil(term) THEN Ok(ResourceLimits_new)
    ELSE IF term.t # "map" THEN Err("badarg")
    ELSE LET secs == LimitField(term.v, "max_duration_secs", decode_f64)
             bad(key, dec(_)) == map_get(term.v, key).ok /\ ~ dec(map_get(term.v, key).v).ok
         IN IF \/ bad("max_allocations", decode_usize)
               \/ bad("max_duration_secs", decode_f64)
               \/ bad("max_memory", decode_usize)
               \/ bad("gc_interval", decode_usize)
               \/ bad("max_recursion_depth", decode_usize)
            THEN Err("badarg")
            ELSE IF secs # <<>> /\ ~ Duration_from_secs_f64(secs[1]).ok THEN Err("panic")
            ELSE Ok([max_allocations |-> LimitField(term.v, "max_allocations", decode_usize),
                     max_duration |-> secs,
                     max_memory |-> LimitField(term.v, "max_memory", decode_usize),
                     gc_interval |-> LimitField(term.v, "gc_interval", decode_usize),
                     max_recursion_depth |->
                         LimitField(term.v, "max_recursion_depth", decode_usize)])

decode_resource_limits(term) ==
    IF limits_is_nil(term) THEN Ok(ResourceLimits_new)
    ELSE IF term.t # "map" THEN Err("badarg")
    ELSE LET secs == LimitField(term.v, "max_duration_secs", decode_f64)
         IN IF secs # <<>> /\ ~ Duration_from_secs_f64(secs[1]).ok THEN Err("panic")
            ELSE Ok([max_allocations |-> LimitField(term.v, "max_allocations", decode_usize),
                     max_duration |-> secs,
                     max_memory |-> LimitField(term.v, "max_memory", decode_usize),
                     gc_interval |-> LimitField(term.v, "gc_interval", decode_usize),
                     max_recursion_depth |->
                         LimitField(term.v, "max_recursion_depth", decode_usize)])

\* --------------------------------------------------------------------------
\* The engine (crate monty), as far as the bridge observes it: a compiled
\* program is a straight line of instructions; executing it either prints,
\* pauses at an external call, pauses at a batch of asynchronous calls,
\* raises, or completes with the accumulator.
\* --------------------------------------------------------------------------
I(op, name, n) == [op |-> op, name |-> name, n |-> n]

\* The programs the host compiles.
\*   1: `fetch(x)` with declared input x
\*   2: print; os call; print; gather of two async calls; print
ProgCode(p) ==
    IF p = 1 THEN <<I("call", "fetch", 0)>>
    ELSE <<I("print", "", 0), I("os_call", "exists", 0), I("print", "", 0),
           I("gather", "", 2), I("print", "", 0)>>

ProgInputs(p) == IF p = 1 THEN <<"x">> ELSE <<>>

ProgIds == 1..2

Exception(ty, msg) == [type |-> ty, message |-> msg]

m_boom == <<"b","o","o","m">>
m_alloc == <<"a","l","l","o","c">>
m_call == <<"c","a","l","l">>

\* RunProgress<LimitedTracker> and the Err(MontyException) of a run.
Running(vm, out) ==
    [kind |-> "Running", state |-> vm, out |-> out, name |-> "", args |-> <<>>,
     call_id |-> 0, value |-> <<>>]
FunctionCall(name, args, call_id, state) ==
    [kind |-> "FunctionCall", state |-> state, out |-> <<>>, name |-> name,
     args |-> args, call_id |-> call_id, value |-> <<>>]
OsCall(function, args, call_id, state) ==
    [kind |-> "OsCall", state |-> state, out |-> <<>>, name |-> function,
     args |-> args, call_id |-> call_id, value |-> <<>>]
ResolveFutures(state) ==
    [kind |-> "ResolveFutures", state |-> state, out |-> <<>>, name |-> "",
     args |-> <<>>, call_id |-> 0, value |-> <<>>]
Complete(value) ==
    [kind |-> "Complete", state |-> <<>>, out |-> <<>>, name |-> "", args |-> <<>>,
     call_id |-> 0, value |-> <<value>>]
Raised(exc) ==
    [kind |-> "Exception", state |-> <<>>, out |-> <<>>, name |-> "", args |-> <<>>,
     call_id |-> 0, value |-> <<exc>>]

\* MontyRun::start : the interpreter state before the first instruction.
MontyRun_start(p, inputs, limits) ==
    [prog |-> p, pc |-> 1, acc |-> IF Len(inputs) > 0 THEN inputs[1] ELSE MNone,
     next_id |-> 0, pending |-> <<>>, limits |-> limits, allocs |-> 0]

\* One instruction of the interpreter.  A printed piece of text is the
\* position of the print instruction that wrote it.
Exec(vm) ==
    LET code == ProgCode(vm.prog)
        ins == code[vm.pc]
        counted == [vm EXCEPT !.allocs = @ + 1]
    IN
    IF vm.pc > Len(code) THEN Complete(vm.acc)
    ELSE IF vm.limits.max_allocations # <<>>
            /\ vm.allocs + 1 > vm.limits.max_allocations[1]
         THEN Raised(Exception(e_RuntimeError, m_alloc))
    ELSE IF ins.op = "print" THEN Running([counted EXCEPT !.pc = @ + 1], <<vm.pc>>)
    ELSE IF ins.op = "call" THEN
        FunctionCall(ins.name, <<vm.acc>>, vm.next_id,
                     [counted EXCEPT !.next_id = @ + 1])
    ELSE IF ins.op = "os_call" THEN
        OsCall(ins.name, <<vm.acc>>, vm.next_id, [counted EXCEPT !.next_id = @ + 1])
    ELSE IF ins.op = "gather" THEN
        ResolveFutures([counted EXCEPT
                           !.pending = [i \in 1..ins.n |-> vm.next_id + i - 1],
                           !.next_id = @ + ins.n])
    ELSE Raised(Exception(e_ValueError, m_boom))

\* Snapshot::run : feed the result of the pending call back in.
Snapshot_run(snap, external_result) ==
    IF external_result.kind = "Return"
    THEN Running([snap EXCEPT !.acc = external_result.v[1], !.pc = @ + 1], <<>>)
    ELSE Raised(Exception(external_result.v[1], external_result.v[2]))

\* FutureSnapshot::pending_call_ids
FutureSnapshot_pending_call_ids(fs) == fs.pending

\* FutureSnapshot::resume : the supplied ids are resolved; ids that were not
\* supplied stay outstanding and the run pauses on them again.
FutureSnapshot_resume(fs, external_results) ==
    LET ids == [i \in 1..Len(external_results) |-> external_results[i][1]]
        isErr(i) == external_results[i][2].kind = "Error"
        rest == SelectSeq(fs.pending, LAMBDA c : c \notin Range(ids))
        n == Len(external_results)
    IN
    IF \E i \in 1..n : ids[i] \notin Range(fs.pending)
    THEN Raised(Exception(e_RuntimeError, m_call))
    ELSE IF \E i \in 1..n : isErr(i)
    THEN LET i == CHOOSE j \in 1..n : isErr(j) /\ \A k \in 1..(j-1) : ~ isErr(k)
         IN Raised(Exception(external_results[i][2].v[1], external_results[i][2].v[2]))
    ELSE IF rest # <<>> THEN ResolveFutures([fs EXCEPT !.pending = rest])
    ELSE Running([fs EXCEPT !.pending = <<>>, !.pc = @ + 1,
                            !.acc = IF n > 0 THEN external_results[n][2].v[1] ELSE @],
                 <<>>)

\* --------------------------------------------------------------------------
\* Binary form (postcard): every number below 128 is one byte, a signed
\* number is zigzag-coded, an Option is a 0/1 byte followed by the value, a
\* sequence or string is its length followed by its elements, an enum is
\* its variant index followed by the variant's fields.
\* --------------------------------------------------------------------------
Alphabet == Lower \o Upper \o <<"_">>

zigzag(n) == IF n >= 0 THEN 2 * n ELSE -2 * n - 1
unzigzag(b) == IF b % 2 = 0 THEN b \div 2 ELSE -((b + 1) \div 2)

enc_str(cs) == <<Len(cs)>> \o [i \in 1..Len(cs) |-> IndexIn(Alphabet, cs[i])]
enc_opt(o) == IF o = <<>> THEN <<0>> ELSE <<1, o[1]>>
enc_ids(ids) == <<Len(ids)>> \o ids

RECURSIVE enc_obj(_)
enc_obj(obj) ==
    CASE obj.k = "None" -> <<0>>
      [] obj.k = "Bool" -> <<1, IF obj.v[1] THEN 1 ELSE 0>>
      [] obj.k = "Int" -> <<2, zigzag(obj.v[1])>>
      [] obj.k = "String" -> <<3>> \o enc_str(obj.v)
      [] obj.k = "Ellipsis" -> <<4>>
      [] OTHER -> <<5, Len(obj.v)>>
                  \o concat([i \in 1..Len(obj.v) |-> enc_obj(obj.v[i])])

enc_limits(l) ==
    enc_opt(l.max_allocations) \o enc_opt(l.max_duration) \o enc_opt(l.max_memory)
    \o enc_opt(l.gc_interval) \o enc_opt(l.max_recursion_depth)

\* A parse step yields the value and the bytes left, or fails.
POk(v, rest) == [ok |-> TRUE, v |-> <<v>>, rest |-> rest]
PFail == [ok |-> FALSE, v |-> <<>>, rest |-> <<>>]

dec_u(b) == IF b = <<>> THEN PFail ELSE POk(b[1], Tail(b))

dec_opt(b) ==
    IF b = <<>> THEN PFail
    ELSE IF b[1] = 0 THEN POk(<<>>, Tail(b))
    ELSE IF b[1] = 1 /\ Len(b) >= 2 THEN POk(<<b[2]>>, SubSeq(b, 3, Len(b)))
    ELSE PFail

dec_ids(b) ==
    IF b = <<>> \/ Len(b) < 1 + b[1] THEN PFail
    ELSE POk(SubSeq(b, 2, 1 + b[1]), SubSeq(b, 2 + b[1], Len(b)))

dec_str(b) ==
    IF b = <<>> \/ Len(b) < 1 + b[1] THEN PFail
    ELSE IF \E i \in 2..(1 + b[1]) : b[i] \notin 1..Len(Alphabet) THEN PFail
    ELSE POk([i \in 1..b[1] |-> Alphabet[b[i + 1]]], SubSeq(b, 2 + b[1], Len(b)))

RECURSIVE dec_obj(_)
RECURSIVE dec_objs(_, _)
dec_objs(b, n) ==
    IF n = 0 THEN POk(<<>>, b)
    ELSE LET h == dec_obj(b)
         IN IF ~ h.ok THEN PFail
            ELSE LET t == dec_objs(h.rest, n - 1)
                 IN IF ~ t.ok THEN PFail ELSE POk(<<h.v[1]>> \o t.v[1], t.rest)

dec_obj(b) ==
    IF b = <<>> THEN PFail
    ELSE IF b[1] = 0 THEN POk(MNone, Tail(b))
    ELSE IF b[1] = 1 THEN
        IF Len(b) >= 2 /\ b[2] \in {0, 1} THEN POk(MBool(b[2] = 1), SubSeq(b, 3, Len(b)))
        ELSE PFail
    ELSE IF b[1] = 2 THEN
        IF Len(b) >= 2 THEN POk(MInt(unzigzag(b[2])), SubSeq(b, 3, Len(b))) ELSE PFail
    ELSE IF b[1] = 3 THEN
        LET r == dec_str(Tail(b)) IN IF r.ok THEN POk(MString(r.v[1]), r.rest) ELSE PFail
    ELSE IF b[1] = 4 THEN POk(MEllipsis, Tail(b))
    ELSE IF b[1] = 5 /\ Len(b) >= 2 THEN
        LET r == dec_objs(SubSeq(b, 3, Len(b)), b[2])
        IN IF r.ok THEN POk(MTuple(r.v[1]), r.rest) ELSE PFail
    ELSE PFail

RECURSIVE dec_opts(_, _)
dec_opts(b, n) ==
    IF n = 0 THEN POk(<<>>, b)
    ELSE LET h == dec_opt(b)
         IN IF ~ h.ok THEN PFail
            ELSE LET t == dec_opts(h.rest, n - 1)
                 IN IF ~ t.ok THEN PFail ELSE POk(<<h.v[1]>> \o t.v[1], t.rest)

dec_limits(b) ==
    LET r == dec_opts(b, 5)
    IN IF ~ r.ok THEN PFail
       ELSE POk([max_allocations |-> r.v[1][1], max_duration |-> r.v[1][2],
                 max_memory |-> r.v[1][3], gc_interval |-> r.v[1][4],
                 max_recursion_depth |-> r.v[1][5]], r.rest)

\* postcard::to_allocvec(&snap), for Snapshot and FutureSnapshot alike
to_allocvec(snap) ==
    <<snap.prog, snap.pc>> \o enc_obj(snap.acc) \o <<snap.next_id>>
    \o enc_ids(snap.pending) \o enc_limits(snap.limits) \o <<snap.allocs>>

\* postcard::from_bytes::<Snapshot<LimitedTracker>>(bytes)
from_bytes(b) ==
    LET f1 == dec_u(b)
        f2 == dec_u(f1.rest)
        f3 == dec_obj(f2.rest)
        f4 == dec_u(f3.rest)
        f5 == dec_ids(f4.rest)
        f6 == dec_limits(f5.rest)
        f7 == dec_u(f6.rest)
    IN IF f1.ok /\ f2.ok /\ f3.ok /\ f4.ok /\ f5.ok /\ f6.ok /\ f7.ok
          /\ f1.v[1] \in ProgIds
       THEN Ok([prog |-> f1.v[1], pc |-> f2.v[1], acc |-> f3.v[1],
                next_id |-> f4.v[1], pending |-> f5.v[1], limits |-> f6.v[1],
                allocs |-> f7.v[1]])
       ELSE Err("deserialization error")

\* serialization.rs RunnerDump { runner, input_names }
RunnerDump(runner, input_names) == [runner |-> runner, input_names |-> input_names]

to_allocvec_runner(dump) ==
    <<dump.runner, Len(dump.input_names)>>
    \o concat([i \in 1..Len(dump.input_names) |-> enc_str(<<dump.input_names[i]>>)])

RECURSIVE dec_strs(_, _)
dec_strs(b, n) ==
    IF n = 0 THEN POk(<<>>, b)
    ELSE LET h == dec_str(b)
         IN IF ~ h.ok \/ Len(h.v[1]) # 1 THEN PFail
            ELSE LET t == dec_strs(h.rest, n - 1)
                 IN IF ~ t.ok THEN PFail ELSE POk(<<h.v[1][1]>> \o t.v[1], t.rest)

from_bytes_runner(b) ==
    LET f1 == dec_u(b)
        f2 == dec_u(f1.rest)
        f3 == dec_strs(f2.rest, f2.v[1])
    IN IF f1.ok /\ f2.ok /\ f3.ok /\ f1.v[1] \in ProgIds
       THEN Ok(RunnerDump(f1.v[1], f3.v[1]))
       ELSE Err("deserialization error")

\* --------------------------------------------------------------------------
\* State
\* --------------------------------------------------------------------------
VARIABLES
    runners,    \* RunnerResource handles: <<[runner, input_names], ...>>
    resources,  \* resources.Snapshot / resources.Future: the slots
                \* Mutex<Option<..>> of every SnapshotResource and
                \* FutureSnapshotResource created so far: [lock, value]
    binaries,   \* the binaries the host received from dump_*: [kind, bytes]
    thr,        \* per scheduler thread: the NIF call it is executing
    calls,      \* number of compile, start, resume and load calls that the
                \* host has issued
    hist,       \* per slot, a record of what has happened to it: how many
                \* consumers obtained its content (taken), how often the
                \* engine was entered from it (runs), and the
                \* bytes it was loaded from (from, empty for a slot made by
                \* encode_run_progress)
    fn_in,      \* the arguments of one call of a helper function of the
                \* bridge taken alone (empty while the NIFs are followed)
    fn_out      \* what that call returned: <<>> before it, <<result>> after

vars == <<runners, resources, binaries, thr, calls, hist, fn_in, fn_out>>

Kinds == {"Snapshot", "Future"}

KindOf(op) == IF op \in {"resume", "dump_snapshot"} THEN "Snapshot" ELSE "Future"

\* One message for both kinds of continuation.
AlreadyConsumed_single(kind) == "snapshot already consumed"

AlreadyConsumed(kind) == IF kind = "Snapshot" THEN "snapshot already consumed"
                         ELSE "future snapshot already consumed"

\* SnapshotResource::new / FutureSnapshotResource::new
Resource_new(snapshot) == [lock |-> 0, value |-> Some(snapshot)]

Hist_new(bytes) == [taken |-> 0, runs |-> 0, from |-> bytes]

\* What a NIF call hands back to the host.
RetOk(v) == [tag |-> "ok", v |-> <<v>>]
RetRaise(msg) == [tag |-> "raise", v |-> <<msg>>]
RetError(e) == [tag |-> "error", v |-> <<e>>]
RetBadArg == [tag |-> "badarg", v |-> <<>>]

Idle == [pc |-> "idle", op |-> "", ref |-> 0, arg |-> <<>>, local |-> None,
         vm |-> <<>>, print |-> <<>>, progress |-> <<>>, ret |-> <<>>]

Done(op, ref, arg, ret) == [Idle EXCEPT !.pc = "done", !.op = op, !.ref = ref,
                                        !.arg = arg, !.ret = <<ret>>]

At(op, ref, arg, pc) == [Idle EXCEPT !.pc = pc, !.op = op, !.ref = ref, !.arg = arg]

\* Scheduling.  The steps of a call that touch nothing but the call's own
\* locals (decoding, the engine run, handing the result to the host) commute
\* with every step of another thread, so they are taken as soon as they are
\* enabled.  The step that ends take()/with() on a slot commutes with every
\* step of another thread except a call on that same slot, so while a thread
\* is inside take()/with() the only other steps considered are calls on the
\* slot it holds.  Threads interleave freely at everything else that touches
\* the resource table or the host's binaries.
PrivatePcs == {"body", "run", "done"}

Busy == \E t \in Threads : thr[t].pc \in PrivatePcs

\* The slots some thread is inside take()/with() on.
HeldSlots ==
    {<<KindOf(thr[t].op), thr[t].ref>> :
        t \in {u \in Threads : thr[u].pc \in {"take", "with"}}}

\* A new call goes to the first free scheduler thread (free threads are
\* interchangeable).
FirstFree(t) ==
    /\ thr[t].pc = "idle"
    /\ \A u \in Threads : u < t => thr[u].pc # "idle"

CanCall(t) == FirstFree(t) /\ ~ Busy /\ HeldSlots = {}

CanCallOn(t, kind, ref) ==
    FirstFree(t) /\ ~ Busy /\ HeldSlots \subseteq {<<kind, ref>>}

AtPc(t, pc) ==
    /\ thr[t].pc = pc
    /\ \/ pc \in PrivatePcs
       \/ ~ Busy /\ (pc = "lock" \/ HeldSlots = {})

nif_return(t) ==
    /\ thr[t].pc = "done"
    /\ thr' = [thr EXCEPT ![t] = Idle]
    /\ UNCHANGED <<runners, resources, binaries, calls, hist, fn_in, fn_out>>

\* What the host supplies.
c_value_error == <<"v","a","l","u","e","_","e","r","r","o","r">>

StartArgs == << << <<>>, TAtom(c_nil) >>,
                << << <<"x", TInt(5)>> >>, TAtom(c_nil) >>,
                << << <<"x", TPid>> >>, TAtom(c_nil) >>,
                << <<>>, TInt(7) >>,
                << << <<"x", TInt(5)>> >>, TInt(7) >>,
                << <<>>, TMap(<< <<"max_allocations", TInt(0)>> >>) >>,
                << << <<"x", TInt(5)>> >>,
                   TMap(<< <<"max_allocations", TInt(0)>> >>) >> >>
ResumeTerms == << TInt(10), TTuple(<<TAtom(c_error), TAtom(c_value_error),
                                     TBinary(m_boom)>>), TPid >>
FutureResults == << <<>>, << <<1, TInt(10)>> >>,
                    << <<1, TInt(10)>>, <<2, TInt(10)>> >>,
                    << <<9, TInt(10)>> >>, << <<1, TPid>> >> >>

Init ==
    /\ runners = <<>>
    /\ resources = [k \in Kinds |-> <<>>]
    /\ binaries = {}
    /\ thr = [t \in Threads |-> Idle]
    /\ calls = 0
    /\ hist = [k \in Kinds |-> <<>>]
    /\ fn_in = <<>>
    /\ fn_out = <<>>

\* --------------------------------------------------------------------------
\* lib.rs compile
\* --------------------------------------------------------------------------
RunnerResource_new(runner, input_names) ==
    [runner |-> runner, input_names |-> input_names]

compile(p) ==
    /\ ~ Busy /\ HeldSlots = {}
    /\ calls < MaxCalls
    /\ calls' = calls + 1
    /\ runners' = Append(runners, RunnerResource_new(p, ProgInputs(p)))
    /\ UNCHANGED <<resources, binaries, thr, hist, fn_in, fn_out>>

\* --------------------------------------------------------------------------
\* interactive.rs start: clone the runner, decode inputs and limits, then
\* run the engine step by step (engine_step) and encode the progress.
\* --------------------------------------------------------------------------
\* A clone taken from the first handle whatever handle is passed.
clone_runner_first(r) == runners[1].runner

clone_runner(r) == runners[r].runner

input_names(r) == runners[r].input_names

\* A buffer that still holds what an earlier call printed.
CollectStringPrint_new_stale == <<1>>

\* CollectStringPrint::new() : the empty output buffer of one call
CollectStringPrint_new == <<>>

\* The error the host sees when a NIF panics (rustler catches the unwind).
m_nif_panicked == "nif_panicked"

start(t, r, inputs, limits) ==
    /\ CanCall(t)
    /\ calls < MaxCalls
    /\ LET monty_run == clone_runner(r)
           monty_inputs == decode_inputs(inputs, input_names(r))
           resource_limits == decode_resource_limits(limits)
           arg == <<inputs, limits>>
       IN thr' = [thr EXCEPT ![t] =
              IF ~ monty_inputs.ok THEN
                  Done("start", r, arg, IF monty_inputs.e.class = "badarg" THEN RetBadArg
                                        ELSE RetError(monty_inputs.e))
              ELSE IF ~ resource_limits.ok THEN
                  Done("start", r, arg, IF resource_limits.e = "panic"
                                        THEN RetRaise(m_nif_panicked) ELSE RetBadArg)
              ELSE [At("start", r, arg, "run") EXCEPT
                       !.print = CollectStringPrint_new,
                       !.vm = <<MontyRun_start(monty_run, monty_inputs.v,
                                               resource_limits.v)>>]]
    /\ calls' = calls + 1
    /\ UNCHANGED <<runners, resources, binaries, hist, fn_in, fn_out>>

\* One instruction of the engine inside start / resume / resume_futures;
\* what it prints goes to the call's CollectStringPrint.
engine_step(t) ==
    /\ AtPc(t, "run")
    /\ LET r == Exec(thr[t].vm[1])
       IN thr' = [thr EXCEPT ![t] =
              IF r.kind = "Running"
              THEN [@ EXCEPT !.vm = <<r.state>>, !.print = @ \o r.out]
              ELSE IF r.kind = "Exception"
              THEN Done(@.op, @.ref, @.arg, RetError(r.value[1]))
              ELSE [@ EXCEPT !.pc = "encode", !.vm = <<>>, !.progress = <<r>>]]
    /\ UNCHANGED <<runners, resources, binaries, calls, hist, fn_in, fn_out>>

\* interactive.rs encode_run_progress (with print.into_output())
Outcome(kind, name, args, call_id, ref, value, output) ==
    [kind |-> kind, name |-> name, args |-> args, call_id |-> call_id,
     ref |-> ref, value |-> value, output |-> output]

\* Every paused state wrapped in a SnapshotResource.
ResourceKind_single(progress) == "Snapshot"

\* FunctionCall and OsCall wrap their state in a SnapshotResource,
\* ResolveFutures wraps it in a FutureSnapshotResource.
ResourceKind(progress) ==
    IF progress.kind = "ResolveFutures" THEN "Future" ELSE "Snapshot"

encode_args(args) == [i \in 1..Len(args) |-> encode_monty_object(args[i])]

encode_run_progress(t) ==
    /\ AtPc(t, "encode")
    /\ LET progress == thr[t].progress[1]
           output == thr[t].print
           kind == ResourceKind(progress)
           ref == Len(resources[kind]) + 1
           out ==
              CASE progress.kind = "FunctionCall" ->
                      Outcome("function_call", progress.name,
                              encode_args(progress.args), progress.call_id, ref,
                              <<>>, output)
                [] progress.kind = "OsCall" ->
                      Outcome("os_call", progress.name, encode_args(progress.args),
                              progress.call_id, ref, <<>>, output)
                [] progress.kind = "ResolveFutures" ->
                      Outcome("resolve_futures", "", <<>>, 0, ref, <<>>, output)
                [] OTHER ->
                      Outcome("complete", "", <<>>, 0, 0,
                              <<encode_monty_object(progress.value[1])>>, output)
       IN /\ thr' = [thr EXCEPT ![t] = Done(@.op, @.ref, @.arg, RetOk(out))]
          /\ IF progress.kind = "Complete"
             THEN UNCHANGED <<resources, hist>>
             ELSE /\ resources' = [resources EXCEPT ![kind] =
                                      Append(@, Resource_new(progress.state))]
                  /\ hist' = [hist EXCEPT ![kind] = Append(@, Hist_new(<<>>))]
    /\ UNCHANGED <<runners, binaries, calls, fn_in, fn_out>>

\* --------------------------------------------------------------------------
\* resources.rs: take() and with() on the slot of a resource.  The thread
\* locks the mutex, reads the Option, (take only) leaves None behind, and
\* unlocks when the guard is dropped at the end of the statement.
\* --------------------------------------------------------------------------
Slot(t) == resources[KindOf(thr[t].op)][thr[t].ref]

\* A mutex that never blocks.
MutexFree_unguarded(slot) == TRUE

MutexFree(slot) == slot.lock = 0

\* A take that would leave the content in place.
Option_take_left_kept(value) == value

\* Option::take leaves None in the slot.
Option_take_left(value) == None

\* A borrow that would empty the slot.
Option_as_ref_left_cleared(value) == None

\* with() borrows: guard.as_ref() leaves the slot as it is.
Option_as_ref_left(value) == value

\* A dump_snapshot that would only borrow the content.
AfterLock_dump_borrows(op) ==
    IF op \in {"pending_call_ids", "dump_snapshot"} THEN "with" ELSE "take"

\* with() is used by pending_call_ids only; every other consumer takes.
AfterLock(op) == IF op = "pending_call_ids" THEN "with" ELSE "take"

\* A call whose first statement is take() or with() on slot ref: it gets the
\* mutex and reads the Option at once when the mutex is free, and waits at
\* lock() otherwise.
call_on_slot(t, op, ref) ==
    LET slot == resources[KindOf(op)][ref]
    IN IF MutexFree(slot)
       THEN /\ resources' = [resources EXCEPT ![KindOf(op)][ref].lock = t]
            /\ thr' = [thr EXCEPT ![t] = [At(op, ref, <<>>, AfterLock(op))
                                            EXCEPT !.local = slot.value]]
       ELSE /\ thr' = [thr EXCEPT ![t] = At(op, ref, <<>>, "lock")]
            /\ UNCHANGED resources

\* A waiting thread gets the mutex: self.snapshot.lock().unwrap() and the
\* read of the Option behind it (take: the value about to be moved out;
\* with: guard.as_ref()).
resource_lock(t) ==
    /\ AtPc(t, "lock")
    /\ HeldSlots \subseteq {<<KindOf(thr[t].op), thr[t].ref>>}
    /\ MutexFree(Slot(t))
    /\ resources' = [resources EXCEPT ![KindOf(thr[t].op)][thr[t].ref].lock = t]
    /\ thr' = [thr EXCEPT ![t].pc = AfterLock(thr[t].op), ![t].local = Slot(t).value]
    /\ UNCHANGED <<runners, binaries, calls, hist, fn_in, fn_out>>

\* End of the statement.  take() leaves None in the slot; with() applies
\* f = |snap| snap.pending_call_ids() to the borrowed content and leaves the
\* slot alone.  The guard is dropped, and `.ok_or_else(..)?` returns the
\* already-consumed error when the slot was empty.
resource_unlock(t) ==
    /\ thr[t].pc \in {"take", "with"} /\ ~ Busy
    /\ resources' = [resources EXCEPT
           ![KindOf(thr[t].op)][thr[t].ref] =
               [lock |-> 0,
                value |-> IF thr[t].pc = "take" THEN Option_take_left(@.value)
                          ELSE Option_as_ref_left(@.value)]]
    /\ thr' = [thr EXCEPT ![t] =
           IF ~ @.local.some
           THEN Done(@.op, @.ref, @.arg, RetRaise(AlreadyConsumed(KindOf(@.op))))
           ELSE IF @.op = "pending_call_ids"
           THEN Done(@.op, @.ref, @.arg,
                     RetOk(FutureSnapshot_pending_call_ids(@.local.v)))
           ELSE [@ EXCEPT !.pc = "body"]]
    /\ hist' = [hist EXCEPT ![KindOf(thr[t].op)][thr[t].ref].taken =
                   IF thr[t].local.some /\ thr[t].op # "pending_call_ids"
                   THEN @ + 1 ELSE @]
    /\ UNCHANGED <<runners, binaries, calls, fn_in, fn_out>>

\* --------------------------------------------------------------------------
\* interactive.rs resume / resume_futures / pending_call_ids
\* --------------------------------------------------------------------------
resume(t, ref) ==
    /\ CanCallOn(t, "Snapshot", ref)
    /\ calls < MaxCalls
    /\ call_on_slot(t, "resume", ref)
    /\ calls' = calls + 1
    /\ UNCHANGED <<runners, binaries, hist, fn_in, fn_out>>

\* After the take: decode the result term the host passed, then
\* snap.run(external_result, print).  The term is not looked at before this
\* point, so it is drawn here.
resume_run(t, result) ==
    /\ AtPc(t, "body") /\ thr[t].op = "resume"
    /\ LET snap == thr[t].local.v
           external_result == decode_external_result(result)
           r == Snapshot_run(snap, external_result.v)
       IN IF ~ external_result.ok
          THEN /\ thr' = [thr EXCEPT ![t] = Done(@.op, @.ref, result, RetBadArg)]
               /\ UNCHANGED hist
          ELSE /\ thr' = [thr EXCEPT ![t] =
                      IF r.kind = "Exception"
                      THEN Done(@.op, @.ref, result, RetError(r.value[1]))
                      ELSE [@ EXCEPT !.pc = "run", !.vm = <<r.state>>,
                                     !.arg = result,
                                     !.print = CollectStringPrint_new \o r.out]]
               /\ hist' = [hist EXCEPT !["Snapshot"][thr[t].ref].runs = @ + 1]
    /\ UNCHANGED <<runners, resources, binaries, calls, fn_in, fn_out>>

resume_futures(t, ref) ==
    /\ CanCallOn(t, "Future", ref)
    /\ calls < MaxCalls
    /\ call_on_slot(t, "resume_futures", ref)
    /\ calls' = calls + 1
    /\ UNCHANGED <<runners, binaries, hist, fn_in, fn_out>>

resume_futures_run(t, results) ==
    /\ AtPc(t, "body") /\ thr[t].op = "resume_futures"
    /\ LET future_snap == thr[t].local.v
           decoded == [i \in 1..Len(results) |-> decode_external_result(results[i][2])]
           external_results == [i \in 1..Len(results) |-> <<results[i][1], decoded[i].v>>]
           r == FutureSnapshot_resume(future_snap, external_results)
       IN IF \E i \in 1..Len(results) : ~ decoded[i].ok
          THEN /\ thr' = [thr EXCEPT ![t] = Done(@.op, @.ref, results, RetBadArg)]
               /\ UNCHANGED hist
          ELSE /\ thr' = [thr EXCEPT ![t] =
                      IF r.kind = "Exception"
                      THEN Done(@.op, @.ref, results, RetError(r.value[1]))
                      ELSE IF r.kind = "Running"
                      THEN [@ EXCEPT !.pc = "run", !.vm = <<r.state>>,
                                     !.arg = results,
                                     !.print = CollectStringPrint_new \o r.out]
                      ELSE [@ EXCEPT !.pc = "encode", !.progress = <<r>>,
                                     !.arg = results,
                                     !.print = CollectStringPrint_new]]
               /\ hist' = [hist EXCEPT !["Future"][thr[t].ref].runs = @ + 1]
    /\ UNCHANGED <<runners, resources, binaries, calls, fn_in, fn_out>>

pending_call_ids(t, ref) ==
    /\ CanCallOn(t, "Future", ref)
    /\ call_on_slot(t, "pending_call_ids", ref)
    /\ UNCHANGED <<runners, binaries, calls, hist, fn_in, fn_out>>

\* --------------------------------------------------------------------------
\* serialization.rs
\* --------------------------------------------------------------------------
Binary(kind, bytes) == [kind |-> kind, bytes |-> bytes]

\* A binary allocated one byte too short.
OwnedBinary_short(bytes) == [i \in 1..(Len(bytes) - 1) |-> bytes[i]]

\* OwnedBinary::new(bytes.len()) and copy_from_slice(&bytes)
OwnedBinary(bytes) == [i \in 1..Len(bytes) |-> bytes[i]]

\* OwnedBinary::new returns None when the host cannot allocate the binary.
m_failed_to_allocate == "failed to allocate binary"

dump_runner(t, r) ==
    /\ CanCall(t)
    /\ LET dump == RunnerDump(clone_runner(r), input_names(r))
           bytes == OwnedBinary(to_allocvec_runner(dump))
       IN \E allocated \in BOOLEAN :
              IF allocated
              THEN /\ thr' = [thr EXCEPT ![t] =
                          Done("dump_runner", r, <<>>, RetOk(bytes))]
                   /\ binaries' = binaries \cup {Binary("Runner", bytes)}
              ELSE /\ thr' = [thr EXCEPT ![t] =
                          Done("dump_runner", r, <<>>, RetRaise(m_failed_to_allocate))]
                   /\ UNCHANGED binaries
    /\ UNCHANGED <<runners, resources, calls, hist, fn_in, fn_out>>

load_runner(t, binary) ==
    /\ CanCall(t)
    /\ calls < MaxCalls
    /\ LET dump == from_bytes_runner(binary)
       IN IF ~ dump.ok
          THEN /\ thr' = [thr EXCEPT ![t] =
                      Done("load_runner", 0, binary, RetRaise(dump.e))]
               /\ UNCHANGED runners
          ELSE /\ runners' = Append(runners,
                                    RunnerResource_new(dump.v.runner, dump.v.input_names))
               /\ thr' = [thr EXCEPT ![t] =
                      Done("load_runner", 0, binary, RetOk(Len(runners) + 1))]
    /\ calls' = calls + 1
    /\ UNCHANGED <<resources, binaries, hist, fn_in, fn_out>>

dump_snapshot(t, ref) ==
    /\ CanCallOn(t, "Snapshot", ref)
    /\ call_on_slot(t, "dump_snapshot", ref)
    /\ UNCHANGED <<runners, binaries, calls, hist, fn_in, fn_out>>

dump_future_snapshot(t, ref) ==
    /\ CanCallOn(t, "Future", ref)
    /\ call_on_slot(t, "dump_future_snapshot", ref)
    /\ UNCHANGED <<runners, binaries, calls, hist, fn_in, fn_out>>

\* After the take in dump_snapshot / dump_future_snapshot: the content is
\* serialized and copied into a new binary; when the binary cannot be
\* allocated the call raises, and the content taken is dropped with it.
dump_serialize(t) ==
    /\ AtPc(t, "body") /\ thr[t].op \in {"dump_snapshot", "dump_future_snapshot"}
    /\ LET bytes == OwnedBinary(to_allocvec(thr[t].local.v))
       IN \E allocated \in BOOLEAN :
              IF allocated
              THEN /\ thr' = [thr EXCEPT ![t] = Done(@.op, @.ref, @.arg, RetOk(bytes))]
                   /\ binaries' = binaries \cup {Binary(KindOf(thr[t].op), bytes)}
              ELSE /\ thr' = [thr EXCEPT ![t] =
                          Done(@.op, @.ref, @.arg, RetRaise(m_failed_to_allocate))]
                   /\ UNCHANGED binaries
    /\ UNCHANGED <<runners, resources, calls, hist, fn_in, fn_out>>

load_resource(t, op, kind, binary) ==
    /\ CanCall(t)
    /\ calls < MaxCalls
    /\ LET snap == from_bytes(binary)
       IN IF ~ snap.ok
          THEN /\ thr' = [thr EXCEPT ![t] = Done(op, 0, binary, RetRaise(snap.e))]
               /\ UNCHANGED <<resources, hist>>
          ELSE /\ resources' = [resources EXCEPT ![kind] =
                                   Append(@, Resource_new(snap.v))]
               /\ hist' = [hist EXCEPT ![kind] = Append(@, Hist_new(binary))]
               /\ thr' = [thr EXCEPT ![t] =
                      Done(op, 0, binary, RetOk(Len(resources[kind]) + 1))]
    /\ calls' = calls + 1
    /\ UNCHANGED <<runners, binaries, fn_in, fn_out>>

load_snapshot(t, binary) == load_resource(t, "load_snapshot", "Snapshot", binary)

load_future_snapshot(t, binary) ==
    load_resource(t, "load_future_snapshot", "Future", binary)

\* --------------------------------------------------------------------------
\* The host: any thread may issue any call on any handle or reference it
\* has received, with any binary it holds (whole or cut short).
\* --------------------------------------------------------------------------
Refs(kind) == 1..Len(resources[kind])

Truncated(bytes) == SubSeq(bytes, 1, Len(bytes) - 1)

HostBinaries(kind) ==
    LET held == {b.bytes : b \in {x \in binaries : x.kind = kind}}
    IN held \cup {Truncated(b) : b \in held}

Next ==
    \/ \E t \in Threads : nif_return(t)
    \/ \E p \in ProgIds : compile(p)
    \/ \E t \in Threads, r \in 1..Len(runners), i \in 1..Len(StartArgs) :
          start(t, r, StartArgs[i][1], StartArgs[i][2])
    \/ \E t \in Threads : engine_step(t)
    \/ \E t \in Threads : encode_run_progress(t)
    \/ \E t \in Threads : resource_lock(t)
    \/ \E t \in Threads : resource_unlock(t)
    \/ \E t \in Threads, ref \in Refs("Snapshot") : resume(t, ref)
    \/ \E t \in Threads, i \in 1..Len(ResumeTerms) : resume_run(t, ResumeTerms[i])
    \/ \E t \in Threads, ref \in Refs("Future") : resume_futures(t, ref)
    \/ \E t \in Threads, i \in 1..Len(FutureResults) :
          resume_futures_run(t, FutureResults[i])
    \/ \E t \in Threads, ref \in Refs("Future") : pending_call_ids(t, ref)
    \/ \E t \in Threads, r \in 1..Len(runners) : dump_runner(t, r)
    \/ \E t \in Threads, b \in HostBinaries("Runner") : load_runner(t, b)
    \/ \E t \in Threads, ref \in Refs("Snapshot") : dump_snapshot(t, ref)
    \/ \E t \in Threads, ref \in Refs("Future") : dump_future_snapshot(t, ref)
    \/ \E t \in Threads : dump_serialize(t)
    \/ \E t \in Threads, b \in HostBinaries("Snapshot") : load_snapshot(t, b)
    \/ \E t \in Threads, b \in HostBinaries("Future") : load_future_snapshot(t, b)

Spec == Init /\ [][Next]_vars

\* --------------------------------------------------------------------------
\* The helper functions of the bridge, each taken alone: one call with
\* arguments drawn from a bounded set.  No NIF is in progress meanwhile.
\* --------------------------------------------------------------------------
BridgeVars == <<runners, resources, binaries, thr, calls, hist>>

NoBridge ==
    /\ runners = <<>>
    /\ resources = [k \in Kinds |-> <<>>]
    /\ binaries = {}
    /\ thr = [t \in Threads |-> Idle]
    /\ calls = 0
    /\ hist = [k \in Kinds |-> <<>>]

SeqsUpTo(S, n) == UNION {[1..k -> S] : k \in 0..n}

\* --------------------------------------------------------------------------
\* types.rs decode_inputs taken alone.
\* --------------------------------------------------------------------------
MaxDeclared == 2
MaxSupplied == 3

InputNames == {"a", "b", "c"}
InputTerms == {TInt(1), TInt(2), TPid}

InitInputs ==
    /\ NoBridge
    /\ fn_in \in [inputs : SeqsUpTo(InputNames \X InputTerms, MaxSupplied),
                  expected_input_names : SeqsUpTo(InputNames, MaxDeclared)]
    /\ fn_out = <<>>

decode_inputs_call ==
    /\ fn_out = <<>>
    /\ fn_out' = <<decode_inputs(fn_in.inputs, fn_in.expected_input_names)>>
    /\ UNCHANGED <<BridgeVars, fn_in>>

NextInputs == decode_inputs_call

SpecInputs == InitInputs /\ [][NextInputs]_vars

\* --------------------------------------------------------------------------
\* types.rs decode_monty_object taken alone, on the named tuples that the
\* host gives with a map of fields: {:named_tuple, type, %{name => value}}.
\* The fields are any of the ten of StatResult and up to MaxExtra others,
\* under atom keys or under binary keys; the value under the j-th key of
\* the map is the integer j.
\* --------------------------------------------------------------------------
MaxExtra == 1

s_stat_result == <<"s","t","a","t","_","r","e","s","u","l","t">>
s_point == <<"p","o","i","n","t">>

ExtraField(i) == <<"s", "t", "_", "x">> \o [j \in 1..i |-> "x"]

FieldNames == Range(STAT_RESULT_FIELD_ORDER) \cup {ExtraField(i) : i \in 1..MaxExtra}

TypeTerms == {TBinary(s_StatResult), TBinary(s_stat_result),
              TAtom(s_stat_result), TAtom(s_point)}

FieldsMap(names, key_t) ==
    LET ns == sort_strings(names)
    IN map_put_all(map_new, [j \in 1..Len(ns) |-> <<Term(key_t, ns[j]), TInt(j)>>])

InitNamedTuple ==
    /\ NoBridge
    /\ \E type_term \in TypeTerms, names \in SUBSET FieldNames,
          key_t \in {"atom", "binary"} :
           fn_in = [term |-> TTuple(<<TAtom(atoms.named_tuple), type_term,
                                      FieldsMap(names, key_t)>>)]
    /\ fn_out = <<>>

decode_monty_object_call ==
    /\ fn_out = <<>>
    /\ fn_out' = <<decode_monty_object(fn_in.term)>>
    /\ UNCHANGED <<BridgeVars, fn_in>>

NextNamedTuple == decode_monty_object_call

SpecNamedTuple == InitNamedTuple /\ [][NextNamedTuple]_vars

\* --------------------------------------------------------------------------
\* The value codec taken alone: a canonical value is encoded, the term is
\* decoded, the decoded value is encoded again.  The collections hold up to
\* MaxItems elements; one level of nesting.
\* --------------------------------------------------------------------------
MaxItems == 2

DistinctSeqs(S, n) ==
    {q \in SeqsUpTo(S, n) : \A i, j \in 1..Len(q) : q[i] = q[j] => i = j}

Scalars == {MNone, MBool(TRUE), MInt(1), MInt(2), MontyObject("Float", <<1>>),
            MString(<<"a">>), MString(<<"b">>), MontyObject("Bytes", <<"a">>),
            MEllipsis, MontyObject("Path", <<"a">>)}

\* The variants that the codec does not bring back by design.
OpaqueValues == {MontyObject("Type", <<"i", "n", "t">>),
                 MontyObject("BuiltinFunction", <<"l", "e", "n">>),
                 MontyObject("Repr", <<"a">>),
                 MontyObject("Cycle", <<1, <<"a">>>>)}

Keys == {MInt(1), MInt(2), MString(<<"a">>), MString(<<"b">>)}

FieldSeqs == DistinctSeqs({<<"x">>, <<"y">>}, MaxItems)

Collections ==
    {MontyObject(k, items) : k \in {"List", "Tuple"},
                             items \in SeqsUpTo(Scalars \cup OpaqueValues, MaxItems)}
    \cup {MontyObject("Dict", pairs) :
             pairs \in {q \in SeqsUpTo(Keys \X {MInt(1), MString(<<"a">>)}, MaxItems) :
                           \A i, j \in 1..Len(q) : q[i][1] = q[j][1] => i = j}}
    \cup {MontyObject(k, items) : k \in {"Set", "FrozenSet"},
                                  items \in DistinctSeqs(Keys, MaxItems)}
    \cup {MontyObject("NamedTuple",
                      <<type_name, fs, [i \in 1..Len(fs) |-> MInt(i)]>>) :
             type_name \in {<<"P", "o", "i", "n", "t">>, <<"p", "o", "i", "n", "t">>},
             fs \in FieldSeqs}
    \cup {MontyObject("Dataclass",
                      <<<<"P">>, fs,
                        [i \in 1..Len(as) |-> <<MString(as[i]), MInt(i)>>], frozen>>) :
             fs \in FieldSeqs, as \in FieldSeqs, frozen \in BOOLEAN}
    \cup {MontyObject("Exception", <<e_ValueError, arg>>) : arg \in {<<>>, <<m_boom>>}}

Nested ==
    {MontyObject(k, <<c>>) : k \in {"List", "Tuple"}, c \in Collections}
    \cup {MontyObject("Dict", << <<MString(<<"a">>), c>> >>) : c \in Collections}

InitCodec ==
    /\ NoBridge
    /\ \E obj \in Scalars \cup OpaqueValues \cup Collections \cup Nested :
           fn_in = [obj |-> obj]
    /\ fn_out = <<>>

encode_monty_object_call ==
    /\ fn_out = <<>>
    /\ fn_out' = <<encode_monty_object(fn_in.obj)>>
    /\ UNCHANGED <<BridgeVars, fn_in>>

decode_encoded_call ==
    /\ Len(fn_out) = 1
    /\ fn_out' = Append(fn_out, decode_monty_object(fn_out[1]))
    /\ UNCHANGED <<BridgeVars, fn_in>>

encode_decoded_call ==
    /\ Len(fn_out) = 2
    /\ fn_out[2].ok
    /\ fn_out' = Append(fn_out, encode_monty_object(fn_out[2].v))
    /\ UNCHANGED <<BridgeVars, fn_in>>

NextCodec ==
    \/ encode_monty_object_call
    \/ decode_encoded_call
    \/ encode_decoded_call

SpecCodec == InitCodec /\ [][NextCodec]_vars

\* --------------------------------------------------------------------------
\* interactive.rs decode_external_result taken alone, on the failures that
\* the host reports: {:error, tag, message} and {:error, message}.  The tag
\* is an atom, a binary or an integer; its text is made of up to MaxWords
\* words, joined by underscores or written together.
\* --------------------------------------------------------------------------
MaxWords == 2

Words == {<<"v","a","l","u","e">>, <<"V","a","l","u","e">>, <<"e","r","r","o","r">>, <<"E","r","r","o","r">>, <<"k","e","y">>, <<"o","s">>, <<"O","S">>, <<"r","u","n","t","i","m","e">>, <<"f","o","o">>, <<>>}

RECURSIVE Join(_, _)
Join(ws, sep) == IF ws = <<>> THEN <<>>
                 ELSE IF Len(ws) = 1 THEN ws[1]
                 ELSE ws[1] \o sep \o Join(Tail(ws), sep)

Messages == {TBinary(m_boom), TInt(1)}

InitExternalResult ==
    /\ NoBridge
    /\ \/ \E ws \in SeqsUpTo(Words, MaxWords), sep \in {<<"_">>, <<>>},
             t \in {"atom", "binary", "int"}, msg \in Messages :
              fn_in = [words |-> ws, sep |-> sep,
                       term |-> TTuple(<<TAtom(c_error),
                                         IF t = "int" THEN TInt(Len(ws))
                                         ELSE Term(t, Join(ws, sep)),
                                         msg>>)]
       \/ \E msg \in Messages :
              fn_in = [words |-> <<>>, sep |-> <<>>,
                       term |-> TTuple(<<TAtom(c_error), msg>>)]
    /\ fn_out = <<>>

decode_external_result_call ==
    /\ fn_out = <<>>
    /\ fn_out' = <<decode_external_result(fn_in.term)>>
    /\ UNCHANGED <<BridgeVars, fn_in>>

NextExternalResult == decode_external_result_call

SpecExternalResult == InitExternalResult /\ [][NextExternalResult]_vars

\* --------------------------------------------------------------------------
\* types.rs decode_resource_limits taken alone, next to the limits that
\* run_no_limits builds (lib.rs:62).
\* --------------------------------------------------------------------------
MaxLimit == 1

TFloat(x) == Term("float", <<x>>)

\* The keys decode_resource_limits looks up, each with the field it sets and
\* the decoder it applies to the value.
LimitKeys == << <<"max_allocations", "max_allocations", "usize">>,
                <<"max_duration_secs", "max_duration", "f64">>,
                <<"max_memory", "max_memory", "usize">>,
                <<"gc_interval", "gc_interval", "usize">>,
                <<"max_recursion_depth", "max_recursion_depth", "usize">> >>

\* What the host may put under one key: nothing, a whole number, a float.
LimitValues == {<<>>} \cup {<<TInt(n)>> : n \in -1..MaxLimit}
                      \cup {<<TFloat(x)>> : x \in -1..MaxLimit}

RECURSIVE LimitPairs(_, _)
LimitPairs(choice, i) ==
    IF i > Len(LimitKeys) THEN <<>>
    ELSE (IF choice[i] = <<>> THEN <<>> ELSE << <<LimitKeys[i][1], choice[i][1]>> >>)
         \o LimitPairs(choice, i + 1)

LimitTerms ==
    {TAtom(c_nil), TAtom(c_true), TInt(7), TBinary(m_boom)}
    \cup {TMap(LimitPairs(choice, 1)) : choice \in [1..Len(LimitKeys) -> LimitValues]}

InitLimits ==
    /\ NoBridge
    /\ fn_in \in LimitTerms
    /\ fn_out = <<>>

\* run / start: types::decode_resource_limits(limits)
decode_resource_limits_call ==
    /\ fn_out = <<>>
    /\ fn_out' = <<decode_resource_limits(fn_in)>>
    /\ UNCHANGED <<BridgeVars, fn_in>>

\* run_no_limits: LimitedTracker::new(ResourceLimits::new())
run_no_limits_call ==
    /\ Len(fn_out) = 1
    /\ fn_out' = fn_out \o <<ResourceLimits_new>>
    /\ UNCHANGED <<BridgeVars, fn_in>>

NextLimits ==
    \/ decode_resource_limits_call
    \/ run_no_limits_call

SpecLimits == InitLimits /\ [][NextLimits]_vars

\* --------------------------------------------------------------------------
\* An exception tag on its way to the host (error.rs encode_monty_exception)
\* and back as the tag of an error outcome (interactive.rs
\* decode_external_result).
\* --------------------------------------------------------------------------
MaxParts == 3

\* Pieces of a tag in capitalized-compound form.
TagParts == {<<"O">>, <<"S">>, <<"E","r","r","o","r">>, <<"K","e","y">>,
             <<"V","a","l","u","e">>, <<"R","u","n","t","i","m","e">>}

CompoundTags == {concat(ps) : ps \in SeqsUpTo(TagParts, MaxParts) \ {<<>>}}

InitTags ==
    /\ NoBridge
    /\ fn_in \in [tag : CompoundTags, as : {"atom", "binary"}]
    /\ fn_out = <<>>

encode_monty_exception_call ==
    /\ fn_out = <<>>
    /\ fn_out' = <<encode_exc_type(fn_in.tag)>>
    /\ UNCHANGED <<BridgeVars, fn_in>>

\* The host hands the name it was given back as {:error, tag, message}.
error_outcome_call ==
    /\ Len(fn_out) = 1
    /\ fn_out' = fn_out \o <<decode_external_result(
                       TTuple(<<TAtom(c_error), Term(fn_in.as, fn_out[1].v),
                                TBinary(m_boom)>>))>>
    /\ UNCHANGED <<BridgeVars, fn_in>>

NextTags ==
    \/ encode_monty_exception_call
    \/ error_outcome_call

SpecTags == InitTags /\ [][NextTags]_vars

\* ==========================================================================
\* Properties
\* ==========================================================================

\* The call of thread record c has ended by raising the error msg.
Raises(c, msg) ==
    c.pc = "done" /\ c.ret[1].tag = "raise" /\ c.ret[1].v[1] = msg

\* C1: take-once for a single continuation.  The engine is entered at most
\* once from any single continuation, and a resume that finishes its take on
\* a continuation whose content an earlier consumer obtained returns the
\* error 'snapshot already consumed' without running anything.
C1_ResumeTakesOnce ==
    /\ [](\A i \in Refs("Snapshot") : hist["Snapshot"][i].runs <= 1)
    /\ [][\A t \in Threads :
            (/\ thr[t].op = "resume" /\ thr[t].pc = "take" /\ thr'[t].pc # "take"
             /\ hist["Snapshot"][thr[t].ref].taken >= 1)
            => /\ Raises(thr'[t], "snapshot already consumed")
               /\ hist' = hist]_vars

\* A second resume has been refused on a continuation the engine ran from.
C1_Witness ==
    \E t \in Threads :
        /\ thr[t].op = "resume"
        /\ Raises(thr[t], "snapshot already consumed")
        /\ hist["Snapshot"][thr[t].ref].runs = 1

\* The consuming operations (everything that calls take()).
Consumers == {"resume", "dump_snapshot", "resume_futures", "dump_future_snapshot"}

\* The threads that are inside take() on slot i of kind k and have read a
\* present content.
Holding(k, i) ==
    {t \in Threads : /\ thr[t].op \in Consumers /\ KindOf(thr[t].op) = k
                     /\ thr[t].ref = i /\ thr[t].pc = "take" /\ thr[t].local.some}

\* C2: under any interleaving of concurrent consumers of one continuation,
\* exactly one obtains it and every other one gets the already-consumed
\* error; the read and the clearing of the slot are atomic under the mutex:
\* a thread inside take()/with() is the lock holder and the slot still holds
\* what it read, the content has been obtained once exactly when the slot is
\* empty, and never by more than one consumer.
C2_OneConsumerWins ==
    /\ [](\A k \in Kinds : \A i \in Refs(k) :
            /\ hist[k][i].taken + Cardinality(Holding(k, i)) <= 1
            /\ (~ resources[k][i].value.some) <=> hist[k][i].taken = 1
            /\ \A t \in Threads :
                  (thr[t].pc \in {"take", "with"} /\ KindOf(thr[t].op) = k
                   /\ thr[t].ref = i)
                  => /\ resources[k][i].lock = t
                     /\ resources[k][i].value.some = thr[t].local.some
                     /\ thr[t].local.some => resources[k][i].value.v = thr[t].local.v)
    /\ [][\A t \in Threads :
            (thr[t].op \in Consumers /\ thr[t].pc = "take" /\ thr'[t].pc # "take")
            => IF Holding(KindOf(thr[t].op), thr[t].ref) = {t}
               THEN thr'[t].pc = "body"
               ELSE Raises(thr'[t], AlreadyConsumed(KindOf(thr[t].op)))]_vars

\* Two overlapping consumers of one continuation: one has read the empty
\* slot while the call that obtained the content has not returned yet.
C2_Witness ==
    \E a, b \in Threads :
        /\ a # b
        /\ thr[a].op \in Consumers /\ thr[a].pc = "take" /\ ~ thr[a].local.some
        /\ thr[b].op \in Consumers /\ KindOf(thr[b].op) = KindOf(thr[a].op)
        /\ thr[b].ref = thr[a].ref /\ thr[b].pc = "encode"

\* C3: dump_snapshot consumes under the same take-once rule as resume.  Of
\* all resume and dump_snapshot calls on one continuation, in any order, the
\* one that finishes its take first obtains the content (and a dump then
\* returns the bytes); each of the others returns 'snapshot already
\* consumed'.
C3_DumpConsumes ==
    [][\A t \in Threads :
         LET c == thr[t]
             h == hist["Snapshot"]
         IN /\ (c.op \in {"resume", "dump_snapshot"} /\ c.pc = "take"
                /\ thr'[t].pc # "take")
               => IF h[c.ref].taken = 0
                  THEN thr'[t].pc = "body" /\ hist'["Snapshot"][c.ref].taken = 1
                  ELSE Raises(thr'[t], "snapshot already consumed") /\ hist' = hist
            /\ (c.op = "dump_snapshot" /\ c.pc = "body" /\ thr'[t].pc # "body")
               => /\ thr'[t].pc = "done"
                  /\ \/ /\ thr'[t].ret[1].tag = "ok"
                        /\ Binary("Snapshot", thr'[t].ret[1].v[1]) \in binaries'
                     \/ Raises(thr'[t], m_failed_to_allocate)]_vars

\* A dump_snapshot has been refused on a continuation that was resumed.
C3_Witness ==
    \E t \in Threads :
        /\ thr[t].op = "dump_snapshot"
        /\ Raises(thr[t], "snapshot already consumed")
        /\ hist["Snapshot"][thr[t].ref].runs = 1

\* C4: a continuation is consumed at most once even across persistence: of
\* the continuations loaded from one and the same dumped bytes, at most one
\* is ever obtained by a consumer; a consume of a second one is rejected.
C4_OnceAcrossPersistence ==
    \A i, j \in Refs("Snapshot") :
        LET h == hist["Snapshot"]
        IN (i # j /\ h[i].from # <<>> /\ h[i].from = h[j].from)
           => h[i].taken + h[j].taken <= 1

\* C5: take-once for a multi continuation.  At most one resume_futures or
\* dump_future_snapshot ever obtains it, and once it has been obtained every
\* resume_futures, dump_future_snapshot and pending_call_ids on it returns
\* 'future snapshot already consumed' and changes nothing.
C5_FutureTakesOnce ==
    /\ [](\A i \in Refs("Future") : hist["Future"][i].taken <= 1)
    /\ [][\A t \in Threads :
            LET c == thr[t]
            IN (/\ c.op \in {"resume_futures", "dump_future_snapshot",
                              "pending_call_ids"}
                /\ c.pc \in {"take", "with"} /\ thr'[t].pc \notin {"take", "with"})
               => IF hist["Future"][c.ref].taken >= 1
                  THEN /\ Raises(thr'[t], "future snapshot already consumed")
                       /\ hist' = hist
                       /\ resources'["Future"][c.ref].value = None
                  ELSE IF c.op = "pending_call_ids"
                  THEN thr'[t].pc = "done" /\ thr'[t].ret[1].tag = "ok"
                  ELSE thr'[t].pc = "body"]_vars

\* A pending_call_ids has been refused on a consumed multi continuation.
C5_Witness ==
    \E t \in Threads :
        /\ thr[t].op = "pending_call_ids"
        /\ Raises(thr[t], "future snapshot already consumed")
        /\ hist["Future"][thr[t].ref].taken = 1

\* C6: pending_call_ids is non-consuming.  No step of a pending_call_ids
\* call changes the content of the slot or its history, and a call that
\* found the continuation present returns the pending ids of the content
\* that is still in the slot afterwards, still unconsumed, so that a
\* following consumer obtains it.
C6_PendingCallIdsBorrows ==
    [][\A t \in Threads :
         LET c == thr[t]
         IN (c.op = "pending_call_ids" /\ thr'[t] # c)
            => /\ resources'["Future"][c.ref].value = resources["Future"][c.ref].value
               /\ hist' = hist
               /\ (c.pc = "with" /\ c.local.some)
                  => /\ thr'[t].pc = "done" /\ thr'[t].ret[1].tag = "ok"
                     /\ resources'["Future"][c.ref].value.some
                     /\ resources'["Future"][c.ref].lock = 0
                     /\ hist'["Future"][c.ref].taken = 0
                     /\ thr'[t].ret[1].v[1] = FutureSnapshot_pending_call_ids(
                                                 resources'["Future"][c.ref].value.v)]_vars

\* pending_call_ids has returned the two outstanding ids of a continuation
\* that is still present, while the other thread asks for them as well.
C6_Witness ==
    \E t, u \in Threads :
        /\ t # u
        /\ thr[t].op = "pending_call_ids" /\ thr[t].pc = "done"
        /\ thr[t].ret[1].tag = "ok" /\ Len(thr[t].ret[1].v[1]) = 2
        /\ resources["Future"][thr[t].ref].value.some
        /\ thr[u].op = "pending_call_ids" /\ thr[u].ref = thr[t].ref
        /\ thr[u].pc = "lock"

\* C7: start never consumes or changes the compiled program handle.  No step
\* changes or removes an existing handle; a start runs a clone of the
\* program of the handle it was given, with an empty output buffer, and
\* touches no continuation when it begins; a start that fails (inputs,
\* limits or execution) creates no continuation and leaves every handle and
\* every slot as it was.
C7_StartLeavesHandle ==
    [][/\ Len(runners') >= Len(runners)
       /\ \A r \in 1..Len(runners) : runners'[r] = runners[r]
       /\ \A t \in Threads :
            LET c == thr[t]
                d == thr'[t]
            IN /\ (c.pc = "idle" /\ d.op = "start")
                  => /\ runners' = runners /\ resources' = resources /\ hist' = hist
                     /\ d.pc = "run" => /\ d.vm[1].prog = runners[d.ref].runner
                                        /\ d.vm[1].pc = 1
                                        /\ d.print = <<>>
               /\ (d.op = "start" /\ c.pc # "done" /\ d.pc = "done"
                   /\ d.ret[1].tag # "ok")
                  => runners' = runners /\ resources' = resources /\ hist' = hist]_vars

\* A start has failed in its initial execution while another start on the
\* same handle is about to return its outcome.
C7_Witness ==
    \E t, u \in Threads :
        /\ t # u
        /\ thr[t].op = "start" /\ thr[t].pc = "done"
        /\ thr[t].ret[1].tag = "error"
        /\ "type" \in DOMAIN thr[t].ret[1].v[1]
        /\ thr[u].op = "start" /\ thr[u].ref = thr[t].ref /\ thr[u].pc = "encode"

\* The result values a resume can feed back (the host terms that decode).
ExternalResults ==
    {decode_external_result(ResumeTerms[i]).v :
        i \in {j \in 1..Len(ResumeTerms) : decode_external_result(ResumeTerms[j]).ok}}

\* What load_snapshot / load_future_snapshot makes of the binary that
\* dump_snapshot / dump_future_snapshot hands out for the content s.
Reloaded(s) == from_bytes(OwnedBinary(to_allocvec(s)))

\* C8: persistence round trip.  Every continuation content s that comes
\* into existence (from a pause or from a load) reloads from its dump to a
\* content that resumes to the same progress for every result and reports
\* the same pending call ids, and a loaded one holds what its bytes say;
\* every handle that comes into existence reloads to a handle with the same
\* program and the same input names; the binary a dump hands out loads back
\* to exactly the content that was dumped; and in the run that pauses on
\* fetch, the pause has call id 0 and a resume that obtains the reloaded
\* continuation and feeds back 10 returns Complete 10.
C8_RoundTrip ==
    /\ [](\A t \in Threads :
            LET c == thr[t]
            IN /\ (c.pc = "done" /\ c.op = "start" /\ c.ret[1].tag = "ok"
                   /\ c.ret[1].v[1].kind = "function_call")
                  => c.ret[1].v[1].call_id = 0
               /\ (/\ c.pc = "done" /\ c.op = "resume"
                   /\ hist["Snapshot"][c.ref].from # <<>>
                   /\ from_bytes(hist["Snapshot"][c.ref].from).v.prog = 1
                   /\ c.ret[1].tag # "raise" /\ c.arg.t = "int")
                  => /\ c.ret[1].tag = "ok"
                     /\ c.ret[1].v[1].kind = "complete"
                     /\ c.ret[1].v[1].value = <<c.arg>>)
    /\ [][
           /\ \A k \in Kinds :
              \A i \in (Len(resources[k]) + 1)..Len(resources'[k]) :
                LET s == resources'[k][i].value.v
                    x == Reloaded(s)
                IN /\ resources'[k][i].value.some
                   /\ x.ok
                   /\ \A r \in ExternalResults :
                         Snapshot_run(x.v, r) = Snapshot_run(s, r)
                   /\ FutureSnapshot_pending_call_ids(x.v)
                         = FutureSnapshot_pending_call_ids(s)
                   /\ hist'[k][i].from # <<>> => to_allocvec(s) = hist'[k][i].from
           /\ \A r \in (Len(runners) + 1)..Len(runners') :
                LET x == from_bytes_runner(OwnedBinary(to_allocvec_runner(
                             RunnerDump(runners'[r].runner, runners'[r].input_names))))
                IN /\ x.ok
                   /\ RunnerResource_new(x.v.runner, x.v.input_names) = runners'[r]
           /\ \A t \in Threads :
                LET c == thr[t]
                    d == thr'[t]
                IN /\ (c.pc = "body" /\ d.pc = "done"
                       /\ c.op \in {"dump_snapshot", "dump_future_snapshot"})
                      => \/ Raises(d, m_failed_to_allocate)
                         \/ /\ d.ret[1].tag = "ok"
                            /\ from_bytes(d.ret[1].v[1]).ok
                            /\ from_bytes(d.ret[1].v[1]).v = c.local.v
                   /\ (c.pc = "idle" /\ d.pc = "done" /\ d.op = "dump_runner")
                      => \/ Raises(d, m_failed_to_allocate)
                         \/ /\ d.ret[1].tag = "ok"
                            /\ from_bytes_runner(d.ret[1].v[1]).ok
                            /\ RunnerResource_new(
                                   from_bytes_runner(d.ret[1].v[1]).v.runner,
                                   from_bytes_runner(d.ret[1].v[1]).v.input_names)
                                 = runners[d.ref]]_vars

\* The reloaded continuation of the run paused on fetch has been resumed
\* with 10 and the call has returned Complete 10.
C8_Witness ==
    \E t \in Threads :
        /\ thr[t].pc = "done" /\ thr[t].op = "resume"
        /\ hist["Snapshot"][thr[t].ref].from # <<>>
        /\ from_bytes(hist["Snapshot"][thr[t].ref].from).v.prog = 1
        /\ thr[t].ret[1].tag = "ok"
        /\ thr[t].ret[1].v[1].kind = "complete"
        /\ thr[t].ret[1].v[1].value = <<TInt(10)>>

\* The calls that run the engine.
Runs == {"start", "resume", "resume_futures"}

\* The instruction at which the call of thread record c entered the engine:
\* the paused instruction of the continuation it took, or the first one.
EnteredAt(c) == IF c.local.some THEN c.local.v.pc ELSE 1

IsPrefix(u, v) == Len(u) <= Len(v) /\ SubSeq(v, 1, Len(u)) = u

\* C9: captured output is per call.  The buffer of a call is empty when the
\* call enters the engine, only grows at its end while the call runs, and
\* holds nothing that was printed before the instruction the call entered
\* at; each of the four outcome variants returned by start, resume and
\* resume_futures carries exactly the buffer of its call.
C9_OutputPerCall ==
    /\ [](\A t \in Threads :
            (thr[t].op \in Runs /\ thr[t].pc \in {"run", "encode"})
            => \A n \in 1..Len(thr[t].print) : thr[t].print[n] >= EnteredAt(thr[t]))
    /\ [][\A t \in Threads :
            LET c == thr[t]
                d == thr'[t]
            IN /\ (c.pc \in {"idle", "body"} /\ d.op \in Runs
                   /\ d.pc \in {"run", "encode"})
                  => d.print = <<>>
               /\ (c.pc = "run" /\ d.pc \in {"run", "encode"})
                  => IsPrefix(c.print, d.print)
               /\ (c.pc = "encode" /\ d.pc # "encode")
                  => /\ d.pc = "done" /\ d.ret[1].tag = "ok"
                     /\ d.ret[1].v[1].kind \in {"function_call", "os_call",
                                                "resolve_futures", "complete"}
                     /\ d.ret[1].v[1].output = c.print]_vars

\* A resume has returned with the text of the one print that ran during it,
\* in a run whose start had printed before.
C9_Witness ==
    \E t \in Threads :
        /\ thr[t].pc = "done" /\ thr[t].op = "resume"
        /\ thr[t].ret[1].tag = "ok"
        /\ thr[t].ret[1].v[1].kind = "resolve_futures"
        /\ thr[t].ret[1].v[1].output = <<3>>

\* The kind of continuation an outcome of the given tag carries.
CarriedKind(tag) == IF tag = "resolve_futures" THEN "Future" ELSE "Snapshot"

\* C10: Complete is terminal and every pause carries one fresh continuation.
\* When a call returns its outcome, a Complete outcome carries the final
\* value and no continuation, and no slot is created; a paused outcome
\* carries the reference of exactly one slot created by this very step, of
\* the kind matching the pause, holding the paused state, unlocked and never
\* taken; all slots that existed stay as they were.
C10_CompleteIsTerminal ==
    [][\A t \in Threads :
         LET c == thr[t]
             d == thr'[t]
             o == d.ret[1].v[1]
             p == c.progress[1]
             k == CarriedKind(o.kind)
         IN (c.pc = "encode" /\ d.pc = "done")
            => /\ d.ret[1].tag = "ok"
               /\ (o.kind = "complete") <=> (p.kind = "Complete")
               /\ (o.kind = "resolve_futures") <=> (p.kind = "ResolveFutures")
               /\ IF o.kind = "complete"
                  THEN /\ o.ref = 0
                       /\ o.value = <<encode_monty_object(p.value[1])>>
                       /\ resources' = resources /\ hist' = hist
                  ELSE /\ o.value = <<>>
                       /\ o.ref = Len(resources[k]) + 1
                       /\ Len(resources'[k]) = Len(resources[k]) + 1
                       /\ resources'[k][o.ref] = [lock |-> 0, value |-> Some(p.state)]
                       /\ hist'[k][o.ref].taken = 0 /\ hist'[k][o.ref].runs = 0
                       /\ \A i \in Refs(k) : resources'[k][i] = resources[k][i]
                       /\ \A j \in Kinds \ {k} : resources'[j] = resources[j]]_vars

\* A run has ended: resume_futures has returned a Complete outcome, which
\* carries a value and no continuation.
C10_Witness ==
    \E t \in Threads :
        /\ thr[t].pc = "done" /\ thr[t].op = "resume_futures"
        /\ thr[t].ret[1].tag = "ok"
        /\ thr[t].ret[1].v[1].kind = "complete"
        /\ thr[t].ret[1].v[1].ref = 0
        /\ Len(thr[t].ret[1].v[1].value) = 1

\* --------------------------------------------------------------------------
\* Input reconciliation (decode_inputs taken alone, SpecInputs)
\* --------------------------------------------------------------------------
Unique(names) == \A i, j \in 1..Len(names) : names[i] = names[j] => i = j

Declared == fn_in.expected_input_names
SuppliedNames == [i \in 1..Len(fn_in.inputs) |-> fn_in.inputs[i][1]]
AllDecode == \A i \in 1..Len(fn_in.inputs) : fn_in.inputs[i][2].t # "pid"

\* The call has returned and none of the earlier checks of decode_inputs
\* applies: names are declared, no name is declared twice, no name is
\* supplied twice, every supplied value is a value of the engine.
PastDuplicateChecks ==
    /\ fn_out # <<>>
    /\ Declared # <<>>
    /\ Unique(Declared)
    /\ Unique(SuppliedNames)
    /\ AllDecode

MissingNames == Range(Declared) \ Range(SuppliedNames)
ExtraNames == Range(SuppliedNames) \ Range(Declared)

NamesAscending(ns) ==
    \A i \in 1..(Len(ns) - 1) : NameRank(ns[i]) < NameRank(ns[i+1])

\* The result is a rejection of the class, naming exactly the names of S,
\* each once, in ascending order.
Lists(r, class, S) ==
    /\ ~ r.ok
    /\ r.e.class = class
    /\ Range(r.e.names) = S
    /\ NamesAscending(r.e.names)

\* C11: when declared names are absent from the supplied inputs,
\* decode_inputs rejects with the list of every missing name in ascending
\* order; when every declared name is supplied and undeclared names are
\* supplied as well, it rejects with the list of every extra name in
\* ascending order.
C11_FullSortedNameLists ==
    PastDuplicateChecks =>
        /\ MissingNames # {} =>
               Lists(fn_out[1], "missing required inputs", MissingNames)
        /\ (MissingNames = {} /\ ExtraNames # {}) =>
               Lists(fn_out[1], "unexpected inputs", ExtraNames)

\* Two names are missing and are reported in ascending order though they
\* are declared in descending order; or two names are extra and are
\* reported in ascending order though they are supplied in descending order.
C11_Witness ==
    /\ PastDuplicateChecks
    /\ \/ /\ Declared = <<"b", "a">>
          /\ fn_in.inputs = <<>>
          /\ fn_out[1].e.names = <<"a", "b">>
       \/ /\ Declared = <<"a">>
          /\ SuppliedNames = <<"c", "a", "b">>
          /\ fn_out[1].e.names = <<"b", "c">>

\* C12: when the supplied names are exactly the declared names,
\* decode_inputs succeeds and position i of its result is the value that
\* was supplied under the i-th declared name, in whatever order the host
\* supplied the pairs.
C12_DeclaredOrder ==
    (PastDuplicateChecks /\ MissingNames = {} /\ ExtraNames = {}) =>
        /\ fn_out[1].ok
        /\ Len(fn_out[1].v) = Len(Declared)
        /\ \A i \in 1..Len(Declared), j \in 1..Len(fn_in.inputs) :
               fn_in.inputs[j][1] = Declared[i] =>
                   fn_out[1].v[i] = decode_monty_object(fn_in.inputs[j][2]).v

\* The host supplied b before a, the runner declares a before b.
C12_Witness ==
    /\ fn_out # <<>>
    /\ Declared = <<"a", "b">>
    /\ fn_in.inputs = << <<"b", TInt(2)>>, <<"a", TInt(1)>> >>
    /\ fn_out[1].ok
    /\ fn_out[1].v = <<MInt(1), MInt(2)>>

\* C13: when the runner declares no input name, decode_inputs succeeds
\* with an empty result if no input is supplied and rejects if any input is
\* supplied.
C13_NoneDeclared ==
    (fn_out # <<>> /\ Declared = <<>>) =>
        IF fn_in.inputs = <<>>
        THEN fn_out[1].ok /\ fn_out[1].v = <<>>
        ELSE ~ fn_out[1].ok

\* Nothing is declared and one input is supplied: rejected.
C13_Witness ==
    /\ fn_out # <<>>
    /\ Declared = <<>>
    /\ fn_in.inputs = << <<"a", TInt(1)>> >>
    /\ ~ fn_out[1].ok
    /\ fn_out[1].e.class = "unexpected inputs: expected none"

\* The class of a rejection is the fixed head of its message.
RejectedAs(class) == ~ fn_out[1].ok /\ fn_out[1].e.class = class

\* C14: decode_inputs rejects a name declared twice with the error of the
\* runner's configuration and rejects a name supplied twice; a rejection of
\* the class missing, extra or duplicate is produced only for an input list
\* that has the fault of that class.
C14_ErrorClasses ==
    fn_out # <<>> =>
        /\ ~ Unique(Declared) => RejectedAs("runner has duplicate input name")
        /\ ~ Unique(SuppliedNames) => ~ fn_out[1].ok
        /\ (Declared # <<>> /\ Unique(Declared) /\ ~ Unique(SuppliedNames)
               /\ AllDecode) => RejectedAs("duplicate input provided")
        /\ RejectedAs("missing required inputs") => MissingNames # {}
        /\ RejectedAs("unexpected inputs") => ExtraNames # {}
        /\ RejectedAs("unexpected inputs: expected none") => ExtraNames # {}
        /\ RejectedAs("runner has duplicate input name") => ~ Unique(Declared)
        /\ RejectedAs("duplicate input provided") => ~ Unique(SuppliedNames)

\* A name is supplied twice while another declared name is missing and an
\* undeclared name is supplied: the rejection is the one of the duplicate.
C14_Witness ==
    /\ fn_out # <<>>
    /\ Declared = <<"a", "b">>
    /\ SuppliedNames = <<"a", "a", "c">>
    /\ AllDecode
    /\ RejectedAs("duplicate input provided")
    /\ fn_out[1].e.names = <<"a">>

\* --------------------------------------------------------------------------
\* Named tuples (decode_monty_object taken alone, SpecNamedTuple)
\* --------------------------------------------------------------------------
CanonicalStatOrder == <<
    <<"s","t","_","m","o","d","e">>,
    <<"s","t","_","i","n","o">>,
    <<"s","t","_","d","e","v">>,
    <<"s","t","_","n","l","i","n","k">>,
    <<"s","t","_","u","i","d">>,
    <<"s","t","_","g","i","d">>,
    <<"s","t","_","s","i","z","e">>,
    <<"s","t","_","a","t","i","m","e">>,
    <<"s","t","_","m","t","i","m","e">>,
    <<"s","t","_","c","t","i","m","e">> >>

GivenType == fn_in.term.v[2]
GivenFields == fn_in.term.v[3].v
GivenNames == {GivenFields[j][1].v : j \in 1..Len(GivenFields)}

\* C15: a map of fields given for the type StatResult (also when the type
\* is given as stat_result) decodes, when its names are exactly the ten
\* canonical ones, to the named tuple StatResult with the fields in the
\* canonical order and each value at the position of its field; with a
\* canonical field missing or with a further field it is a decode error.
C15_StatResultOrder ==
    (fn_out # <<>> /\ GivenType.v \in {s_StatResult, s_stat_result}) =>
        IF GivenNames = Range(CanonicalStatOrder)
        THEN /\ fn_out[1].ok
             /\ fn_out[1].v.k = "NamedTuple"
             /\ fn_out[1].v.v[1] = s_StatResult
             /\ fn_out[1].v.v[2] = CanonicalStatOrder
             /\ Len(fn_out[1].v.v[3]) = Len(CanonicalStatOrder)
             /\ \A i \in 1..Len(CanonicalStatOrder), j \in 1..Len(GivenFields) :
                    GivenFields[j][1].v = CanonicalStatOrder[i] =>
                        fn_out[1].v.v[3][i] = MInt(GivenFields[j][2].v[1])
        ELSE ~ fn_out[1].ok

\* The ten fields under atom keys, the type given as the atom stat_result:
\* st_mode, the sixth key of the map, comes first in the result.
C15_Witness ==
    /\ fn_out # <<>>
    /\ GivenType = TAtom(s_stat_result)
    /\ GivenNames = Range(CanonicalStatOrder)
    /\ GivenFields[1][1].t = "atom"
    /\ fn_out[1].ok
    /\ fn_out[1].v.v[2][1] = <<"s", "t", "_", "m", "o", "d", "e">>
    /\ fn_out[1].v.v[3][1] = MInt(6)

\* --------------------------------------------------------------------------
\* Round trips of the value codec (SpecCodec)
\* --------------------------------------------------------------------------
OpaqueKinds == {"Type", "BuiltinFunction", "Repr", "Cycle"}

\* The canonical values directly inside a canonical value.
Parts(obj) ==
    CASE obj.k \in {"List", "Tuple", "Set", "FrozenSet"} -> Range(obj.v)
      [] obj.k = "Dict" ->
            UNION {{obj.v[i][1], obj.v[i][2]} : i \in 1..Len(obj.v)}
      [] obj.k = "NamedTuple" -> Range(obj.v[3])
      [] obj.k = "Dataclass" ->
            UNION {{obj.v[3][i][1], obj.v[3][i][2]} : i \in 1..Len(obj.v[3])}
      [] OTHER -> {}

RECURSIVE HasOpaque(_)
HasOpaque(obj) == obj.k \in OpaqueKinds \/ \E part \in Parts(obj) : HasOpaque(part)

\* C16: for every canonical value with no opaque variant in it, nested
\* values included, decoding the encoded value gives a value equal to it:
\* the same variant with the same contents.
C16_RoundTrip ==
    (Len(fn_out) >= 2 /\ ~ HasOpaque(fn_in.obj)) =>
        fn_out[2].ok /\ fn_out[2].v = fn_in.obj

\* The keys of a map of the host in the order of its traversal, and the
\* encoded keys of a dictionary in the order of their insertion.
MapKeys(term) == [i \in 1..Len(term.v) |-> term.v[i][1]]
InsertedKeys(obj) == [i \in 1..Len(obj.v) |-> encode_monty_object(obj.v[i][1])]

\* C17: the encoded form of a dictionary has the keys in the order of their
\* insertion, and so has the form obtained by decoding it and encoding the
\* decoded value again.
C17_DictOrder ==
    (Len(fn_out) = 3 /\ fn_in.obj.k = "Dict") =>
        /\ MapKeys(fn_out[1]) = InsertedKeys(fn_in.obj)
        /\ MapKeys(fn_out[3]) = InsertedKeys(fn_in.obj)

\* The fields of a data class that have an attribute, with their values.
PresentFields(obj) ==
    LET present == SelectSeq(obj.v[2], LAMBDA f : attr_get(obj.v[3], f).some)
    IN [i \in 1..Len(present) |->
           <<MString(present[i]), attr_get(obj.v[3], present[i]).v>>]

\* C18: the term that encode emits for a data class decodes to a data
\* class with the same name, the same frozen flag and the fields of the
\* emitted mapping, not to a dictionary.
C18_DataclassDecoded ==
    (Len(fn_out) >= 2 /\ fn_in.obj.k = "Dataclass") =>
        /\ fn_out[2].ok
        /\ fn_out[2].v.k = "Dataclass"
        /\ fn_out[2].v.v[1] = fn_in.obj.v[1]
        /\ fn_out[2].v.v[4] = fn_in.obj.v[4]
        /\ \A i \in 1..Len(PresentFields(fn_in.obj)) :
               \E j \in 1..Len(fn_out[2].v.v[3]) :
                   fn_out[2].v.v[3][j] = PresentFields(fn_in.obj)[i]

\* --------------------------------------------------------------------------
\* Error tags (decode_external_result taken alone, SpecExternalResult)
\* --------------------------------------------------------------------------
EngineTags == {<<"R","u","n","t","i","m","e","E","r","r","o","r">>,
               <<"V","a","l","u","e","E","r","r","o","r">>,
               <<"K","e","y","E","r","r","o","r">>,
               <<"O","S","E","r","r","o","r">>}

GenericTag == <<"R","u","n","t","i","m","e","E","r","r","o","r">>

\* The tag as the host wrote it, and its words with a capital first letter
\* each, written together.  A tag written without underscores is one word.
GivenTag == Join(fn_in.words, fn_in.sep)
Compound ==
    IF fn_in.sep = <<>>
    THEN (IF GivenTag = <<>> THEN <<>>
          ELSE <<to_uppercase(GivenTag[1])>> \o Tail(GivenTag))
    ELSE Join([i \in 1..Len(fn_in.words) |->
                  IF fn_in.words[i] = <<>> THEN <<>>
                  ELSE <<to_uppercase(fn_in.words[i][1])>> \o Tail(fn_in.words[i])],
              <<>>)

ExpectedTag ==
    IF fn_in.term.v[2].t = "int" THEN GenericTag
    ELSE IF GivenTag \in EngineTags THEN GivenTag
    ELSE IF Compound \in EngineTags THEN Compound
    ELSE GenericTag

GivenMessage(term) == IF term.t = "binary" THEN term.v ELSE m_unknown

\* C19: the tag of a failure {:error, tag, message} is the tag itself if
\* it is one of the engine's, otherwise its capitalized compound form if
\* that is one of the engine's, otherwise the generic runtime-error tag;
\* a failure {:error, message} gets the runtime-error tag; in every case
\* the reconciliation yields an error outcome and does not fail.
C19_TagParsing ==
    fn_out # <<>> =>
        /\ fn_out[1].ok
        /\ fn_out[1].v.kind = "Error"
        /\ IF Len(fn_in.term.v) = 3
           THEN fn_out[1].v.v = <<ExpectedTag, GivenMessage(fn_in.term.v[3])>>
           ELSE fn_out[1].v.v = <<GenericTag, GivenMessage(fn_in.term.v[2])>>

\* The tag value_error, matched at the second attempt as ValueError.
C19_Witness ==
    /\ fn_out # <<>>
    /\ Len(fn_in.term.v) = 3
    /\ fn_in.term.v[2] = TAtom(<<"v","a","l","u","e","_","e","r","r","o","r">>)
    /\ fn_out[1].ok
    /\ fn_out[1].v.v[1] = <<"V","a","l","u","e","E","r","r","o","r">>

\* --------------------------------------------------------------------------
\* Resource limits (Spec)
\* --------------------------------------------------------------------------
\* error.rs ResourceErrorWrapper(ResourceError::Allocation { limit, count }):
\* the error value that encode_resource_error turns into
\* {:allocation_limit, limit, count}.
ResourceError_Allocation(limit, count) == [limit |-> limit, count |-> count]

\* The next instruction of the engine exceeds the configured number of
\* allocations.
LimitExceeded(vm) ==
    /\ vm.pc <= Len(ProgCode(vm.prog))
    /\ vm.limits.max_allocations # <<>>
    /\ vm.allocs + 1 > vm.limits.max_allocations[1]

\* C20: a start or resume in which the engine exceeds the configured limit
\* returns to the host an error that is a resource-limit error, carrying
\* the limit and the observed value, and not an exception of the engine.
C20_LimitErrorSurfaces ==
    [][\A t \in Threads :
          (thr[t].pc = "run" /\ thr'[t].pc # "run" /\ LimitExceeded(thr[t].vm[1])) =>
              /\ thr'[t].pc = "done"
              /\ thr'[t].ret[1].tag = "error"
              /\ DOMAIN thr'[t].ret[1].v[1] = DOMAIN ResourceError_Allocation(0, 0)
              /\ thr'[t].ret[1].v[1] =
                     ResourceError_Allocation(thr[t].vm[1].limits.max_allocations[1],
                                              thr[t].vm[1].allocs + 1)]_vars

\* --------------------------------------------------------------------------
\* Resource limits that are absent or do not decode.
\* --------------------------------------------------------------------------
IsNil(term) == term.t = "atom" /\ term.v = c_nil

Present(term, i) == map_get(term.v, LimitKeys[i][1]).ok

Given(term, i) == map_get(term.v, LimitKeys[i][1]).v

Decodes(term, i) ==
    IF LimitKeys[i][3] = "f64" THEN decode_f64(Given(term, i)).ok
    ELSE decode_usize(Given(term, i)).ok

\* C21: a limits term that is nil or the empty map gives exactly the limits
\* that run_no_limits builds, and in every map each key that is absent leaves
\* its field as in those limits, whatever the other keys hold.
C21_AbsentMeansUnlimited ==
    Len(fn_out) = 2 =>
        /\ (IsNil(fn_in) \/ fn_in = TMap(<<>>)) => fn_out[1] = Ok(fn_out[2])
        /\ (fn_in.t = "map" /\ fn_out[1].ok) =>
               \A i \in 1..Len(LimitKeys) :
                   ~ Present(fn_in, i) =>
                       fn_out[1].v[LimitKeys[i][2]] = fn_out[2][LimitKeys[i][2]]

C21_Witness ==
    /\ Len(fn_out) = 2
    /\ fn_in = TMap(<< <<"max_memory", TInt(1)>> >>)
    /\ fn_out[1].ok
    /\ fn_out[1].v.max_memory = <<1>>
    /\ fn_out[1].v.max_allocations = <<>>

\* C23: a limits term that is neither nil nor a map is rejected; in a map, a
\* key whose value does not decode to the number its field expects is passed
\* over: it never makes the decoding fail, its field stays as in fresh
\* limits, and every key whose value decodes still sets its field.
C23_LenientFields ==
    Len(fn_out) >= 1 =>
        /\ (fn_in.t # "map" /\ ~ IsNil(fn_in)) => fn_out[1] = Err("badarg")
        /\ fn_in.t = "map" =>
               /\ fn_out[1].ok \/ fn_out[1] = Err("panic")
               /\ fn_out[1] = Err("panic") <=>
                      \E i \in 1..Len(LimitKeys) :
                          /\ LimitKeys[i][3] = "f64"
                          /\ Present(fn_in, i) /\ Decodes(fn_in, i)
                          /\ Given(fn_in, i).v[1] < 0
               /\ fn_out[1].ok =>
                      \A i \in 1..Len(LimitKeys) :
                          fn_out[1].v[LimitKeys[i][2]] =
                              IF Present(fn_in, i) /\ Decodes(fn_in, i)
                              THEN Given(fn_in, i).v
                              ELSE ResourceLimits_new[LimitKeys[i][2]]

C23_Witness ==
    /\ Len(fn_out) >= 1
    /\ fn_in = TMap(<< <<"max_allocations", TInt(-1)>>, <<"max_memory", TInt(1)>> >>)
    /\ fn_out[1].ok
    /\ fn_out[1].v.max_allocations = <<>>
    /\ fn_out[1].v.max_memory = <<1>>

\* --------------------------------------------------------------------------
\* A failed resume or dump has consumed the continuation.
\* --------------------------------------------------------------------------
Failed(c) == c.pc = "done" /\ c.ret[1].tag # "ok"

\* C22: when resume, resume_futures, dump_snapshot or dump_future_snapshot
\* returns a failure, the slot it was called on is empty; an empty slot
\* stays empty; and every resume, dump or pending_call_ids that reads an
\* empty slot returns the already-consumed error.
C22_FailedResumeConsumes ==
    [][/\ \A t \in Threads :
              (Failed(thr'[t]) /\ thr'[t].op \in Consumers) =>
                  ~ resources'[KindOf(thr'[t].op)][thr'[t].ref].value.some
       /\ \A k \in Kinds : \A i \in Refs(k) :
              ~ resources[k][i].value.some => ~ resources'[k][i].value.some
       /\ \A t \in Threads :
              (thr[t].pc \in {"take", "with"} /\ thr'[t].pc # thr[t].pc
                   /\ ~ Slot(t).value.some) =>
                  Raises(thr'[t], AlreadyConsumed(KindOf(thr[t].op)))]_vars

\* A continuation has been taken once by a call that neither entered the
\* engine nor produced a binary (a resume whose outcome did not decode, or a
\* dump whose binary could not be allocated), and a later call on it has
\* been answered with the already-consumed error.
C22_Witness ==
    \E u \in Threads :
        /\ thr[u].op \in {"resume", "dump_snapshot"}
        /\ Raises(thr[u], AlreadyConsumed("Snapshot"))
        /\ hist["Snapshot"][thr[u].ref].taken = 1
        /\ hist["Snapshot"][thr[u].ref].runs = 0
        /\ \A b \in binaries : b.kind # "Snapshot"

\* --------------------------------------------------------------------------
\* Exception tags through the host's naming convention.
\* --------------------------------------------------------------------------
IsEngineTag(tag) == \E i \in 1..Len(ExcTypes) : ExcTypes[i] = tag

\* C24: for a tag in capitalized-compound form, the name handed to the host
\* has no capitals, the capitalized-compound conversion of that name is the
\* tag again, and when the tag is one of the engine's, the name supplied as
\* the tag of an error outcome is parsed to the same tag.
C24_TagRoundTrip ==
    /\ Len(fn_out) >= 1 =>
           /\ fn_out[1].t = "atom"
           /\ \A i \in 1..Len(fn_out[1].v) : ~ is_uppercase(fn_out[1].v[i])
           /\ to_pascal(fn_out[1].v) = fn_in.tag
    /\ (Len(fn_out) = 2 /\ IsEngineTag(fn_in.tag)) =>
           fn_out[2] = Ok(Error(fn_in.tag, m_boom))

C24_Witness ==
    /\ Len(fn_out) = 2
    /\ fn_in.tag = e_OSError
    /\ fn_out[1] = TAtom(<<"o","_","s","_","e","r","r","o","r">>)
    /\ fn_out[2] = Ok(Error(e_OSError, m_boom))

====
